---- MODULE Spec2Model ----
(***************************************************************************)
(* Conversation-session and dialogue-turn management of the Ooredoo RAG    *)
(* server: the live call-session table (utils/session_utils.py), the       *)
(* Twilio IVR callbacks (routes/twilio.py) and the voice pipelines         *)
(* (routes/voice.py).                                                      *)
(***************************************************************************)
EXTENDS Integers, Sequences, FiniteSets, TLC

None == "None"

(***************************************************************************)
(* Bounds of the model.                                                    *)
(***************************************************************************)
\* session objects ever constructed in one behaviour (object identities)
MaxObjects == 2
\* request coroutines the event loop holds at once
NumTasks == 2
\* rows the durable store can take before every further write fails
MaxRows == 2
\* length of the run of consecutive empty speech inputs that is counted
MaxStreak == 2
\* turns served in one behaviour of the turn pipelines
MaxTurns == 2
\* turns in the longest history a client sends or a session has stored
MaxHistory == 12

(***************************************************************************)
(* Text.  A text is a sequence of one-character strings, so that           *)
(* str.lower() and the substring test `phrase in text` are computed.       *)
(***************************************************************************)
UpperCase == <<"A","B","C","D","E","F","G","H","I","J","K","L","M",
               "N","O","P","Q","R","S","T","U","V","W","X","Y","Z">>
LowerCase == <<"a","b","c","d","e","f","g","h","i","j","k","l","m",
               "n","o","p","q","r","s","t","u","v","w","x","y","z">>

\* str.lower() on one character
LowerChar(ch) ==
    IF \E i \in 1..26 : UpperCase[i] = ch
    THEN LowerCase[CHOOSE i \in 1..26 : UpperCase[i] = ch]
    ELSE ch

\* str.lower()
Lower(s) == [i \in 1..Len(s) |-> LowerChar(s[i])]

\* Python's `p in s` on strings: p occurs in s as a contiguous substring
Contains(s, p) ==
    \E i \in 0..(Len(s) - Len(p)) :
        \A j \in 1..Len(p) : s[i + j] = p[j]

(***************************************************************************)
(* utils/text_utils.py: what a turn extracts from the user's message.      *)
(* The keywords written here are those in ASCII; the others (accented      *)
(* French, Arabic) occur in no text over the model's alphabet.             *)
(***************************************************************************)
IsLetter(ch) == \E i \in 1..26 : ch = UpperCase[i] \/ ch = LowerCase[i]
\* the regular expression class \w
IsWord(ch) == IsLetter(ch) \/ ch \in {"0","1","2","3","4","5","6","7","8","9"} \/ ch = "_"
\* the regular expression class \s
IsSpace(ch) == ch = " "

\* str.upper() on one character
UpperChar(ch) ==
    IF \E i \in 1..26 : LowerCase[i] = ch
    THEN UpperCase[CHOOSE i \in 1..26 : LowerCase[i] = ch]
    ELSE ch

\* str.title(): a letter that follows no letter is upper case, the others lower
Title(s) ==
    [i \in 1..Len(s) |->
        IF i = 1 \/ ~IsLetter(s[i - 1]) THEN UpperChar(s[i]) ELSE LowerChar(s[i])]

\* the elements of a name pattern: literal text, an optional character (c?)
\* and optional white space (\s*)
Lit(s) == [i \in 1..Len(s) |-> [k |-> "lit", c |-> s[i]]]
Opt(ch) == <<[k |-> "opt", c |-> ch]>>
Spaces == <<[k |-> "spaces", c |-> " "]>>

\* name_patterns, in list order: what each pattern has before its group
\* (\w+(?:\s+\w+)*)
name_patterns ==
    << Lit(<<"m","y"," ","n","a","m","e"," ","i","s"," ">>),
       Lit(<<"i","'","m"," ">>),
       Lit(<<"i"," ","a","m"," ">>),
       Lit(<<"c","a","l","l"," ","m","e"," ">>),
       Lit(<<"t","h","i","s"," ","i","s"," ">>),
       Lit(<<"i","'","m"," ","c","a","l","l","e","d"," ">>),
       Lit(<<"j","e"," ","m","'","a","p","p","e","l","l","e"," ">>),
       Lit(<<"m","o","n"," ","n","o","m"," ","e","s","t"," ">>),
       Lit(<<"j","e"," ","s","u","i","s"," ">>),
       Lit(<<"c","'","e","s","t"," ">>),
       Lit(<<"i","s","m","i"," ">>),
       Lit(<<"a","n","a"," ">>),
       Lit(<<"h","e","l","l","o">>) \o Opt(",") \o Spaces \o Lit(<<"i">>) \o Opt("'") \o Lit(<<"m"," ">>),
       Lit(<<"h","i">>) \o Opt(",") \o Spaces \o Lit(<<"i">>) \o Opt("'") \o Lit(<<"m"," ">>),
       Lit(<<"b","o","n","j","o","u","r">>) \o Opt(",") \o Spaces \o Lit(<<"j","e"," ","s","u","i","s"," ">>) >>

\* the words that are no names
NonNames ==
    { <<"g","o","o","d">>, <<"f","i","n","e">>, <<"o","k","a","y">>,
      <<"w","e","l","l">>, <<"h","e","r","e">>,
      <<"c","a","l","l","i","n","g">>, <<"l","o","o","k","i","n","g">>,
      <<"t","r","y","i","n","g">> }

RECURSIVE MatchEnds(_, _, _, _)
\* re: the positions at which a match of pat[k..] that starts at s[i] can end
MatchEnds(pat, k, s, i) ==
    IF k > Len(pat) THEN {i}
    ELSE IF pat[k].k = "lit"
    THEN IF i <= Len(s) /\ s[i] = pat[k].c THEN MatchEnds(pat, k + 1, s, i + 1) ELSE {}
    ELSE IF pat[k].k = "opt"
    THEN (IF i <= Len(s) /\ s[i] = pat[k].c THEN MatchEnds(pat, k + 1, s, i + 1) ELSE {})
         \cup MatchEnds(pat, k + 1, s, i)
    ELSE UNION { MatchEnds(pat, k + 1, s, j) :
                   j \in { j \in i..(Len(s) + 1) : \A m \in i..(j - 1) : IsSpace(s[m]) } }

\* the group (\w+(?:\s+\w+)*) matched greedily from s[j]: words and the
\* white space between them, up to the last character of a word
GroupFrom(s, j) ==
    LET ends == { e \in j..Len(s) :
                    /\ IsWord(s[e])
                    /\ \A m \in j..e : IsWord(s[m]) \/ IsSpace(s[m]) }
        e == CHOOSE e \in ends : \A f \in ends : f <= e
    IN  SubSeq(s, j, e)

\* re.search(pattern, s): the group of the leftmost match, <<>> when none
SearchGroup(pat, s) ==
    LET Starts(i) == { j \in MatchEnds(pat, 1, s, i) : j <= Len(s) /\ IsWord(s[j]) }
        hits == { i \in 1..Len(s) : Starts(i) # {} }
    IN  IF hits = {} THEN <<>>
        ELSE LET i == CHOOSE i \in hits : \A h \in hits : i <= h
                 j == CHOOSE j \in Starts(i) : \A h \in Starts(i) : h <= j
             IN  GroupFrom(s, j)

RECURSIVE NameFrom(_, _)
\* the loop over name_patterns from pattern k on
NameFrom(s, k) ==
    IF k > Len(name_patterns) THEN <<>>
    ELSE LET name == SearchGroup(name_patterns[k], s)
         IN  IF name # <<>> /\ name \notin NonNames THEN Title(name)
             ELSE NameFrom(s, k + 1)

\* extract_user_name; <<>> stands for None (a name matched is never empty)
extract_user_name(input_text) == NameFrom(Lower(input_text), 1)

\* issue_patterns: the issue types and their keywords, in list order
issue_patterns ==
    LET \* the keywords of issue type "billing", in list order
        K_billing ==
            << <<"b","i","l","l">>, <<"b","i","l","l","i","n","g">>,
               <<"p","a","y","m","e","n","t">>, <<"c","h","a","r","g","e">>,
               <<"i","n","v","o","i","c","e">>, <<"c","o","s","t">>,
               <<"p","r","i","c","e">>, <<"m","o","n","e","y">>, <<"p","a","y">>,
               <<"o","w","e","d">>, <<"d","e","b","t">>,
               <<"f","a","c","t","u","r","e">>, <<"p","a","i","e","m","e","n","t">>,
               <<"p","r","i","x">>, <<"a","r","g","e","n","t">> >>

        \* the keywords of issue type "internet", in list order
        K_internet ==
            << <<"i","n","t","e","r","n","e","t">>, <<"w","i","f","i">>,
               <<"w","i","-","f","i">>, <<"c","o","n","n","e","c","t","i","o","n">>,
               <<"s","l","o","w">>, <<"o","u","t","a","g","e">>,
               <<"s","p","e","e","d">>, <<"b","r","o","a","d","b","a","n","d">>,
               <<"n","e","t","w","o","r","k">>,
               <<"c","o","n","n","e","x","i","o","n">>, <<"l","e","n","t">>,
               <<"p","a","n","n","e">>, <<"v","i","t","e","s","s","e">> >>

        \* the keywords of issue type "mobile", in list order
        K_mobile ==
            << <<"p","h","o","n","e">>, <<"m","o","b","i","l","e">>,
               <<"c","e","l","l">>, <<"c","a","l","l">>, <<"t","e","x","t">>,
               <<"s","m","s">>, <<"v","o","i","c","e","m","a","i","l">>,
               <<"s","i","g","n","a","l">>, <<"r","o","a","m","i","n","g">>,
               <<"m","o","b","i","l","e">>, <<"a","p","p","e","l">>,
               <<"t","e","x","t","o">>, <<"s","i","g","n","a","l">> >>

        \* the keywords of issue type "technical", in list order
        K_technical ==
            << <<"t","e","c","h","n","i","c","a","l">>,
               <<"s","u","p","p","o","r","t">>, <<"h","e","l","p">>,
               <<"p","r","o","b","l","e","m">>, <<"i","s","s","u","e">>,
               <<"e","r","r","o","r">>, <<"b","u","g">>, <<"f","i","x">>,
               <<"r","e","p","a","i","r">>, <<"b","r","o","k","e","n">>,
               <<"t","e","c","h","n","i","q","u","e">>, <<"a","i","d","e">>,
               <<"e","r","r","e","u","r">> >>

        \* the keywords of issue type "account", in list order
        K_account ==
            << <<"a","c","c","o","u","n","t">>, <<"l","o","g","i","n">>,
               <<"p","a","s","s","w","o","r","d">>, <<"p","r","o","f","i","l","e">>,
               <<"s","e","t","t","i","n","g","s">>,
               <<"p","e","r","s","o","n","a","l">>,
               <<"i","n","f","o","r","m","a","t","i","o","n">>, <<"d","a","t","a">>,
               <<"c","o","m","p","t","e">>, <<"c","o","n","n","e","x","i","o","n">>,
               <<"m","o","t"," ","d","e"," ","p","a","s","s","e">>,
               <<"p","r","o","f","i","l">> >>

        \* the keywords of issue type "service", in list order
        K_service ==
            << <<"s","e","r","v","i","c","e">>, <<"p","l","a","n">>,
               <<"p","a","c","k","a","g","e">>,
               <<"s","u","b","s","c","r","i","p","t","i","o","n">>,
               <<"u","p","g","r","a","d","e">>,
               <<"d","o","w","n","g","r","a","d","e">>, <<"c","h","a","n","g","e">>,
               <<"s","w","i","t","c","h">>, <<"f","o","r","f","a","i","t">>,
               <<"a","b","o","n","n","e","m","e","n","t">> >>
    IN  << [type |-> "billing", keywords |-> K_billing],
           [type |-> "internet", keywords |-> K_internet],
           [type |-> "mobile", keywords |-> K_mobile],
           [type |-> "technical", keywords |-> K_technical],
           [type |-> "account", keywords |-> K_account],
           [type |-> "service", keywords |-> K_service] >>

\* the score of one issue type: one for every keyword of its list, as often
\* as the list has it, that occurs in the text
IssueScore(keywords, text_lower) ==
    Cardinality({ i \in 1..Len(keywords) : Contains(text_lower, keywords[i]) })

\* the last type, in list order, among those of the highest score
extract_issue_type_last_max(input_text) ==
    LET text_lower == Lower(input_text)
        score == [i \in 1..Len(issue_patterns) |->
                    IssueScore(issue_patterns[i].keywords, text_lower)]
        issue_scores == { i \in 1..Len(issue_patterns) : score[i] > 0 }
    IN  IF issue_scores = {} THEN None
        ELSE issue_patterns[CHOOSE i \in issue_scores :
                              \A j \in issue_scores :
                                  score[j] < score[i] \/ (score[j] = score[i] /\ j <= i)].type

\* extract_issue_type: the first type, in list order, among those of the
\* highest score above zero; None when no keyword occurs
extract_issue_type(input_text) ==
    LET text_lower == Lower(input_text)
        score == [i \in 1..Len(issue_patterns) |->
                    IssueScore(issue_patterns[i].keywords, text_lower)]
        issue_scores == { i \in 1..Len(issue_patterns) : score[i] > 0 }
    IN  IF issue_scores = {} THEN None
        ELSE issue_patterns[CHOOSE i \in issue_scores :
                              \A j \in issue_scores :
                                  score[j] < score[i] \/ (score[j] = score[i] /\ i <= j)].type

(***************************************************************************)
(* Configuration (config.py) and collaborators.                            *)
(***************************************************************************)
\* LANGUAGE_CONFIG: the IVR key of each language, in menu order
LANGUAGE_CONFIG ==
    [ d \in {"1", "2", "3"} |->
        CASE d = "1" -> [code |-> "en-US", name |-> "English"]
          [] d = "2" -> [code |-> "ar-SA", name |-> "Arabic"]
          [] d = "3" -> [code |-> "fr-FR", name |-> "French"] ]

\* ASSISTANT_CONFIG: the IVR key of each persona
ASSISTANT_CONFIG ==
    [ d \in {"1", "2"} |->
        CASE d = "1" -> [id |-> 1, name |-> "Slah"]
          [] d = "2" -> [id |-> 2, name |-> "Amira"] ]

\* dict.get(key, default)
DictGet(dict, key, default) ==
    IF key \in DOMAIN dict THEN dict[key] ELSE default

\* the CallSids Twilio uses and the numbers that call
CallSids == {"CA1", "CA2"}
Phones == {"+21620000001", "+21650000002"}

\* the keys a caller can press at a one-digit gather
DigitInputs == {"1", "2", "3", "7"}

\* identify_caller_by_phone: a registered user or an unregistered caller
\* (for a name, <<>> stands for None)
identify_caller_by_phone(phone) ==
    IF phone = "+21620000001"
    THEN [is_registered |-> TRUE, full_name |-> <<"S","a","m","i">>, user_id |-> "u1"]
    ELSE [is_registered |-> FALSE, full_name |-> <<>>, user_id |-> None]

\* caller_info = None
NoCallerInfo == [is_registered |-> FALSE, full_name |-> <<>>, user_id |-> None]

\* CallSession(call_sid, caller_phone): a new object, identity oid
DefaultLanguage == "en-US"
DefaultAssistantId == 2
CallSession(oid, call_sid, caller_phone) ==
    [ oid |-> oid, call_sid |-> call_sid, caller_phone |-> caller_phone,
      session_id |-> call_sid, language |-> DefaultLanguage,
      assistant_id |-> DefaultAssistantId, caller_info |-> NoCallerInfo ]

(***************************************************************************)
(* State.                                                                  *)
(***************************************************************************)
VARIABLES
    call_sessions,  \* config.call_sessions: CallSid -> CallSession object
    nextOid,        \* identity of the next object CallSession() constructs
    db,             \* config.db is set (a durable store is configured)
    rows,           \* table conversations, in timestamp order
    meta,           \* table sessions: session_id -> metadata of save_session
    call,           \* Twilio's side of each call: status and TwiML left to run
    streak,         \* per call: consecutive empty speech inputs so far
    ev,             \* the last request served and what the handler did
    tasks,          \* the event loop's request coroutines, statement by statement
    running,        \* the coroutine that holds the event loop, 0 when it is idle
    turns,          \* voice and speech turns served so far
    bg              \* the background tasks of the responses, as scheduled

vars == <<call_sessions, nextOid, db, rows, meta, call, streak, ev, tasks, running,
          turns, bg>>

(***************************************************************************)
(* utils/session_utils.py                                                  *)
(***************************************************************************)
\* get_or_create_call_session without the membership test: every call
\* constructs
get_or_create_always_new(tbl, oid, call_sid, caller_phone) ==
    LET t == [k \in (DOMAIN tbl) \cup {call_sid} |->
                IF k = call_sid THEN CallSession(oid, call_sid, caller_phone)
                ELSE tbl[k]]
    IN  [ tbl |-> t, next |-> oid + 1, session |-> t[call_sid] ]

\* get_or_create_call_session on table tbl; oid is the next object identity.
\* Returns the table, the next identity and the session returned.
get_or_create_call_session(tbl, oid, call_sid, caller_phone) ==
    LET t == IF call_sid \notin DOMAIN tbl
             THEN tbl @@ (call_sid :> CallSession(oid, call_sid, caller_phone))
             ELSE tbl
    IN  [ tbl |-> t,
          next |-> IF call_sid \notin DOMAIN tbl THEN oid + 1 ELSE oid,
          session |-> t[call_sid] ]

\* a handler may construct a session only while identities are left
CanServe(call_sid) == call_sid \in DOMAIN call_sessions \/ nextOid <= MaxObjects

\* call_sessions.get(CallSid); NoSession stands for Python's None
NoSession ==
    [ oid |-> 0, call_sid |-> None, caller_phone |-> None, session_id |-> None,
      language |-> None, assistant_id |-> 0, caller_info |-> NoCallerInfo ]
SessionOf(tbl, call_sid) ==
    IF call_sid \in DOMAIN tbl THEN tbl[call_sid] ELSE NoSession

\* a clean-up that resets nothing: the entry stays
WithoutNothing(tbl, call_sid) == tbl

\* del call_sessions[CallSid]
Without(tbl, call_sid) == [k \in (DOMAIN tbl) \ {call_sid} |-> tbl[k]]

(***************************************************************************)
(* TwiML: the verbs of a VoiceResponse, in document order.                 *)
(***************************************************************************)
Say(what, text) ==
    [verb |-> "Say", url |-> None, input |-> None, what |-> what, text |-> text]
Gather(input, url, prompt) ==
    [verb |-> "Gather", url |-> url, input |-> input, what |-> prompt, text |-> <<>>]
Redirect(url, query) ==
    [verb |-> "Redirect", url |-> url, input |-> None, what |-> query, text |-> <<>>]
Hangup ==
    [verb |-> "Hangup", url |-> None, input |-> None, what |-> None, text |-> <<>>]

\* the body of a JSON (non-TwiML) response
Json(status) == <<[verb |-> "Json", url |-> None, input |-> None, what |-> status, text |-> <<>>]>>

(***************************************************************************)
(* Collaborators of a turn: the generator and the durable store.           *)
(***************************************************************************)
\* "ok"
R_ok ==
    << "o","k" >>
\* "Technical difficulties please"
R_failure ==
    << "T","e","c","h","n","i","c","a","l"," ","d","i","f","f","i","c","u",
       "l","t","i","e","s"," ","p","l","e","a","s","e" >>
\* rag_system.get_response: what it returns; "raise" is a raised exception
Replies == {R_ok, R_failure, <<>>}
GenOutcomes == {"return", "raise"}

\* the context window (history_to_use[-10:]) and the LIMIT of the history query
ContextWindow == 10
HistoryLimit == 10

\* s[:n] and s[-n:]
FirstN(s, n) == SubSeq(s, 1, IF Len(s) < n THEN Len(s) ELSE n)
\* the window taken from the front of the list: s[:n] in place of s[-n:]
WindowFromFront(s, n) == SubSeq(s, 1, IF Len(s) < n THEN Len(s) ELSE n)
LastN(s, n) == SubSeq(s, IF Len(s) < n THEN 1 ELSE Len(s) - n + 1, Len(s))

\* one turn of a history: {"user": ..., "ai": ...}
Turn(user, ai) == [user |-> user, ai |-> ai]

\* the turns of a context, each as f"User: {user_msg}\nAI: {ai_msg}\n"
RECURSIVE TurnsText(_)
TurnsText(history) ==
    IF history = <<>> THEN <<>>
    ELSE
        << "U","s","e","r",":"," " >>
        \o Head(history).user \o
        << "\n","A","I",":"," " >>
        \o Head(history).ai \o << "\n" >> \o TurnsText(Tail(history))

\* a context with the preamble and the closing line around an empty history
ContextAlwaysFramed(history_to_use, transcription) ==
    [ framed |-> TRUE, turns |-> LastN(history_to_use, ContextWindow),
      current |-> transcription,
      text |-> << "P","r","e","v","i","o","u","s"," ","c","o","n","v","e","r",
                  "s","a","t","i","o","n",":","\n" >>
               \o TurnsText(LastN(history_to_use, ContextWindow))
               \o << "\n","C","u","r","r","e","n","t"," ","u","s","e","r"," ",
                     "m","e","s","s","a","g","e",":"," " >>
               \o transcription \o << "\n" >> ]

\* conversation_context, the text handed to the generator: the message
\* alone when there is no history, else "Previous conversation:\n", the last
\* ContextWindow turns and f"\nCurrent user message: {transcription}\n".
\* framed, turns and current name the parts of text.
Context(history_to_use, transcription) ==
    [ framed |-> history_to_use # <<>>,
      turns |-> LastN(history_to_use, ContextWindow),
      current |-> transcription,
      text |-> IF history_to_use = <<>> THEN transcription
               ELSE
                  << "P","r","e","v","i","o","u","s"," ","c","o","n","v",
                     "e","r","s","a","t","i","o","n",":","\n" >>
                  \o TurnsText(LastN(history_to_use, ContextWindow)) \o
                  << "\n","C","u","r","r","e","n","t"," ","u","s","e","r",
                     " ","m","e","s","s","a","g","e",":"," " >>
                  \o transcription \o << "\n" >> ]
NoContext == [framed |-> FALSE, turns |-> <<>>, current |-> <<>>, text |-> <<>>]

\* what a save can do: both writes done, save_session raising, or
\* save_session done and the insert into conversations raising
SaveOutcomes == {"ok", "fail_session", "fail_conversation"}
CanSave(outcome) == outcome = "ok" => Len(rows) < MaxRows

\* db.save_session: upsert of the session's metadata
save_session(m, session_id, language, assistant_id, user_id, user_name, issue_type) ==
    [k \in (DOMAIN m) \cup {session_id} |->
        IF k = session_id
        THEN [language |-> language, assistant_id |-> assistant_id,
              user_id |-> user_id, user_name |-> user_name,
              issue_type |-> issue_type]
        ELSE m[k]]

\* db.save_conversation / INSERT INTO conversations: the row appended.  Its
\* id is the next value of the table's sequence, which hands out no value
\* twice, also when the insert that took one is not committed
ConversationRow(r, session_id, user_message, ai_response, language, user_id) ==
    [ id |-> Len(r) + turns + 1, session_id |-> session_id, user_message |-> user_message,
      ai_response |-> ai_response, language |-> language, user_id |-> user_id,
      user_audio_path |-> None, ai_audio_path |-> None ]

\* no call of get_or_create_call_session in the request
NoGoc == [called |-> FALSE, existed |-> FALSE, phone |-> None, ret |-> NoSession,
          oid0 |-> 0, next |-> 0]
\* a call of it: the key was in the table, the phone passed, the session
\* returned, and the next object identity before and after the call
Goc(existed, phone, g) ==
    [called |-> TRUE, existed |-> existed, phone |-> phone, ret |-> g.session,
     oid0 |-> nextOid, next |-> g.next]

\* `session = call_sessions.get(CallSid); if not session: session =
\* get_or_create_call_session(CallSid, "unknown")`
GetOrUnknown(call_sid) ==
    IF call_sid \in DOMAIN call_sessions
    THEN [tbl |-> call_sessions, next |-> nextOid,
          session |-> call_sessions[call_sid], goc |-> NoGoc]
    ELSE LET g == get_or_create_call_session(call_sessions, nextOid, call_sid, "unknown")
         IN  [tbl |-> g.tbl, next |-> g.next, session |-> g.session,
              goc |-> Goc(FALSE, "unknown", g)]

\* a coroutine slot with no request in it
IdleTask == [ep |-> None, sid |-> None, phone |-> None, digits |-> None,
             status |-> None, pc |-> "idle", held |-> 0, absent0 |-> FALSE]

(***************************************************************************)
(* Twilio's side of a call, and the IVR state it is in.                    *)
(***************************************************************************)
U_language == "/api/twilio/language-selection"
U_assistant == "/api/twilio/assistant-selection"
U_start == "/api/twilio/start-conversation"
U_speech == "/api/twilio/process-speech"

InProgress(c) == call[c].status = "in-progress"
\* the verb Twilio runs next; a document that ran out ends the call
NextVerb(c) == IF call[c].doc = <<>> THEN Hangup ELSE Head(call[c].doc)

\* the IVR state of call c, read off the verb Twilio is at
IvrState(c) ==
    LET v == NextVerb(c)
    IN  IF call[c].status = "none" THEN "NO_CALL"
        ELSE IF call[c].status = "ended" THEN "TERMINATED"
        ELSE IF v.verb = "Say" /\ v.what \in {"welcome", "welcome_back"}
             THEN "GREETING"
        ELSE IF v.url = U_language THEN "LANGUAGE_SELECT"
        ELSE IF v.url = U_assistant \/ (v.verb = "Say" /\ v.what = "selected")
             THEN "PERSONA_SELECT"
        ELSE IF v.verb = "Say" /\ v.what \in {"reply", "apology"} THEN "RESPOND"
        ELSE IF v.verb = "Hangup" \/ (v.verb = "Say" /\ v.what \in
                                        {"goodbye_unheard", "goodbye_thanks"})
             THEN "TERMINATED"
        ELSE "GATHER_SPEECH"

(***************************************************************************)
(* The record of the last request served.                                  *)
(***************************************************************************)
\* the session that a terminal status callback found in the table, when
\* that callback was the request served just before this one for the CallSid
JustEvicted(sid) ==
    IF /\ ev.ep = "status-callback" /\ ev.sid = sid
       /\ ev.status \in {"completed", "failed", "busy", "no-answer", "canceled"}
    THEN ev.pre ELSE NoSession

\* a request to endpoint ep for CallSid sid, before the handler fills in
\* what it was given and what it did
Request(ep, sid) ==
    [ ep |-> ep, sid |-> sid,
      digits |-> None,        \* the form's Digits, None when absent
      speech |-> <<>>,        \* the form's SpeechResult
      status |-> None,        \* the form's CallStatus
      ivr |-> IF sid \in CallSids THEN IvrState(sid) ELSE "NO_CALL",
      pre |-> SessionOf(call_sessions, sid),   \* the session on arrival
      evicted |-> JustEvicted(sid),
      goc |-> NoGoc,          \* the call of get_or_create_call_session
      gen |-> "none",         \* the generator: none, return, raise
      prompt |-> NoContext,   \* the context handed to the generator
      reply |-> <<>>,         \* what the generator returned
      tickets |-> 0,          \* calls of create_trello_card
      ticket |-> "none",      \* what create_trello_card did: url, null, raise
      save |-> "none",        \* what the store did with the turn
      resp |-> <<>>,          \* the response body when it is TwiML
      http |-> 200,           \* the status of the response
      session_id |-> None,    \* sessionId of a voice response
      answer |-> <<>>,        \* aiResponse of a voice response
      history |-> <<>>,       \* conversationHistory of a voice response
      jobs |-> <<>>,          \* the background tasks scheduled
      client |-> <<>>,        \* request.history of a voice request
      audioSaved |-> None,    \* audioSaved of a voice response
      persona |-> None ]      \* assistant_name of a turn

NoEvent ==
    [ ep |-> "init", sid |-> None, digits |-> None, speech |-> <<>>,
      status |-> None, ivr |-> "NO_CALL", pre |-> NoSession,
      evicted |-> NoSession, goc |-> NoGoc, gen |-> "none", prompt |-> NoContext,
      reply |-> <<>>, tickets |-> 0, ticket |-> "none", save |-> "none",
      resp |-> <<>>, http |-> 200, session_id |-> None, answer |-> <<>>,
      history |-> <<>>, jobs |-> <<>>, client |-> <<>>, audioSaved |-> None,
      persona |-> None ]

(***************************************************************************)
(* routes/twilio.py: the handlers.  Each is the whole request: it updates  *)
(* the table and the store and records the response in ev.                 *)
(***************************************************************************)
\* Form(default=...): the field's value, or the default when it is absent
FormValue(v, default) == IF v = None THEN default ELSE v

\* LANGUAGE_CONFIG[Digits] guarded by a fallback to the last language
SelectLanguageLast(Digits) == DictGet(LANGUAGE_CONFIG, Digits, LANGUAGE_CONFIG["3"])

\* ASSISTANT_CONFIG.get(Digits, ASSISTANT_CONFIG["1"])
SelectAssistantFirst(Digits) == DictGet(ASSISTANT_CONFIG, Digits, ASSISTANT_CONFIG["1"])

\* a selection that takes an unknown key as the code of the language
SelectLanguageAsPressed(Digits) ==
    DictGet(LANGUAGE_CONFIG, Digits, [code |-> Digits, name |-> Digits])

\* LANGUAGE_CONFIG.get(Digits, LANGUAGE_CONFIG["1"])
SelectLanguage(Digits) == DictGet(LANGUAGE_CONFIG, Digits, LANGUAGE_CONFIG["1"])

\* ASSISTANT_CONFIG.get(Digits, ASSISTANT_CONFIG["2"])
SelectAssistant(Digits) == DictGet(ASSISTANT_CONFIG, Digits, ASSISTANT_CONFIG["2"])

\* a <Say> that names a language or an assistant
SayName(what, name) == [Say(what, <<>>) EXCEPT !.input = name]

\* the TwiML of incoming-call: greeting, language menu, default English
IncomingResponse(info) ==
    << Say(IF info.is_registered /\ info.full_name # <<>>
           THEN "welcome_back" ELSE "welcome", <<>>),
       Gather("dtmf", U_language, "language_menu"),
       Redirect(U_language, "Digits=1") >>

\* the TwiML of language-selection: the persona menu, default Amira
LanguageResponse(lang_config) ==
    << SayName("selected", lang_config.name),
       Gather("dtmf", U_assistant, "assistant_menu"),
       Redirect(U_assistant, "Digits=2") >>

\* the TwiML of assistant-selection: the first speech gather
AssistantResponse(assistant_config) ==
    << SayName("connected", assistant_config.name),
       Gather("speech", U_speech, None),
       Say("try_again", <<>>),
       Redirect(U_start, None) >>

\* the TwiML of start-conversation: one more gather, then goodbye
StartResponse ==
    << Gather("speech", U_speech, None),
       Say("goodbye_unheard", <<>>),
       Hangup >>

\* the TwiML of process-speech on an empty SpeechResult (lines 241-244)
EmptySpeechResponse == << Say("try_again", <<>>), Redirect(U_start, None) >>

\* an apology followed by one more gather
FailedResponseWithGather ==
    << Say("apology", <<>>), Gather("speech", U_speech, "anything_else"),
       Say("goodbye_thanks", <<>>), Hangup >>

\* the TwiML of process-speech when generation raised (lines 279-286)
FailedResponse == << Say("apology", <<>>), Hangup >>

\* a reply followed by a return to the language menu
AnsweredBackToMenu(ai_response) ==
    << Say("reply", ai_response),
       Gather("dtmf", U_language, "language_menu"),
       Say("goodbye_thanks", <<>>),
       Hangup >>

\* the TwiML of process-speech after a reply (lines 277, 288-303)
AnsweredResponse(ai_response) ==
    << Say("reply", ai_response),
       Gather("speech", U_speech, "anything_else"),
       Say("goodbye_thanks", <<>>),
       Hangup >>

\* POST /api/twilio/incoming-call
handle_incoming_call(CallSid, From) ==
    LET g == get_or_create_call_session(call_sessions, nextOid, CallSid, From)
        info == identify_caller_by_phone(From)
    IN  /\ CanServe(CallSid)
        /\ call_sessions' = [g.tbl EXCEPT ![CallSid].caller_info = info]
        /\ nextOid' = g.next
        /\ ev' = [Request("incoming-call", CallSid) EXCEPT
                    !.goc = Goc(CallSid \in DOMAIN call_sessions, From, g),
                    !.resp = IncomingResponse(info)]
        /\ UNCHANGED <<db, rows, meta>>

\* POST /api/twilio/language-selection; digits is the form's Digits or None
handle_language_selection(CallSid, digits) ==
    LET Digits == FormValue(digits, "1")
        g == GetOrUnknown(CallSid)
        lang_config == SelectLanguage(Digits)
    IN  /\ CanServe(CallSid)
        /\ call_sessions' = [g.tbl EXCEPT ![CallSid].language = lang_config.code]
        /\ nextOid' = g.next
        /\ ev' = [Request("language-selection", CallSid) EXCEPT
                    !.digits = digits, !.goc = g.goc,
                    !.resp = LanguageResponse(lang_config)]
        /\ UNCHANGED <<db, rows, meta>>

\* POST /api/twilio/assistant-selection
handle_assistant_selection(CallSid, digits) ==
    LET Digits == FormValue(digits, "2")
        g == GetOrUnknown(CallSid)
        fresh == CallSid \notin DOMAIN call_sessions
        t1 == IF fresh THEN [g.tbl EXCEPT ![CallSid].language = "en-US"] ELSE g.tbl
        assistant_config == SelectAssistant(Digits)
    IN  /\ CanServe(CallSid)
        /\ call_sessions' = [t1 EXCEPT ![CallSid].assistant_id = assistant_config.id]
        /\ nextOid' = g.next
        /\ ev' = [Request("assistant-selection", CallSid) EXCEPT
                    !.digits = digits, !.goc = g.goc,
                    !.resp = AssistantResponse(assistant_config)]
        /\ UNCHANGED <<db, rows, meta>>

\* the defaults of start-conversation and process-speech set on the session
\* whether it was in the table or not
GetOrDefaultAlways(CallSid) ==
    LET g == GetOrUnknown(CallSid)
    IN  [g EXCEPT !.tbl = [g.tbl EXCEPT ![CallSid].language = "en-US",
                                        ![CallSid].assistant_id = 2]]

\* `if not session:` of start-conversation and process-speech: a session
\* constructed here gets language en-US and assistant 2
GetOrDefault(CallSid) ==
    LET g == GetOrUnknown(CallSid)
    IN  IF CallSid \in DOMAIN call_sessions THEN g
        ELSE [g EXCEPT !.tbl = [g.tbl EXCEPT ![CallSid].language = "en-US",
                                             ![CallSid].assistant_id = 2]]

\* POST /api/twilio/start-conversation
start_conversation(CallSid) ==
    LET g == GetOrDefault(CallSid)
    IN  /\ CanServe(CallSid)
        /\ call_sessions' = g.tbl
        /\ nextOid' = g.next
        /\ ev' = [Request("start-conversation", CallSid) EXCEPT
                    !.goc = g.goc, !.resp = StartResponse]
        /\ UNCHANGED <<db, rows, meta>>

\* the store after the turn's save: save_session, then the conversation row
StoreAfterSave(save, session_id, language, assistant_id, user_id, user_name, issue_type, user_message, ai_response) ==
    LET m == IF save \in {"fail_session", "down"} THEN meta
             ELSE save_session(meta, session_id, language, assistant_id,
                               user_id, user_name, issue_type)
        r == IF save = "ok"
             THEN Append(rows, ConversationRow(rows, session_id, user_message,
                                               ai_response, language, user_id))
             ELSE rows
    IN  [meta |-> m, rows |-> r]

\* POST /api/twilio/process-speech.  SpeechResult is the form's field, ""
\* when absent; gen, reply and save are what the generator and the store do
process_speech(CallSid, SpeechResult, gen, reply, save) ==
    LET g == GetOrDefault(CallSid)
        s == g.tbl[CallSid]
        st == StoreAfterSave(save, s.session_id, s.language, s.assistant_id,
                             s.caller_info.user_id, s.caller_info.full_name,
                             None, SpeechResult, reply)
        assistant_name == IF s.assistant_id = 1 THEN "Slah" ELSE "Amira"
        req == [Request("process-speech", CallSid) EXCEPT
                  !.speech = SpeechResult, !.goc = g.goc,
                  !.persona = assistant_name]
    IN  /\ CanServe(CallSid)
        /\ call_sessions' = g.tbl
        /\ nextOid' = g.next
        /\ IF SpeechResult = <<>>
           THEN /\ gen = "none" /\ save = "none" /\ reply = <<>>
                /\ UNCHANGED <<rows, meta>>
                /\ ev' = [req EXCEPT !.resp = EmptySpeechResponse]
           ELSE IF gen = "raise"
           THEN /\ save = "none" /\ reply = <<>>
                /\ UNCHANGED <<rows, meta>>
                /\ ev' = [req EXCEPT !.gen = "raise",
                                     !.prompt = Context(<<>>, SpeechResult),
                                     !.resp = FailedResponse]
           ELSE /\ gen = "return"
                /\ IF db THEN save \in SaveOutcomes /\ CanSave(save)
                         ELSE save = "none"
                /\ rows' = IF db THEN st.rows ELSE rows
                /\ meta' = IF db THEN st.meta ELSE meta
                /\ ev' = [req EXCEPT !.gen = "return",
                                     !.prompt = Context(<<>>, SpeechResult),
                                     !.reply = reply, !.save = save,
                                     !.resp = AnsweredResponse(reply)]
        /\ UNCHANGED db

\* the values of CallStatus that Twilio posts to the status callback
CallStatuses ==
    {"completed", "failed", "busy", "no-answer", "canceled", "in-progress"}

\* the clean-up list with only the normal end of a call
CompletedOnly == {"completed"}

\* the statuses on which the status callback cleans up (line 316)
TerminalStatuses == {"completed", "failed", "busy", "no-answer", "canceled"}

\* POST /api/twilio/status-callback
handle_status_callback(CallSid, CallStatus) ==
    /\ call_sessions' =
          IF CallStatus \in TerminalStatuses /\ CallSid \in DOMAIN call_sessions
          THEN Without(call_sessions, CallSid)
          ELSE call_sessions
    /\ ev' = [Request("status-callback", CallSid) EXCEPT
                !.status = CallStatus, !.resp = Json("received")]
    /\ UNCHANGED <<nextOid, db, rows, meta>>

(***************************************************************************)
(* Twilio: it runs the TwiML of the last response verb by verb and calls   *)
(* back the application.                                                   *)
(***************************************************************************)
\* what callers say: nothing, a plain request, an explicit ticket request
\* "my bill"
M_bill ==
    << "m","y"," ","b","i","l","l" >>
\* "please OPEN a Ticket"
M_ticket ==
    << "p","l","e","a","s","e"," ","O","P","E","N"," ","a"," ","T","i","c",
       "k","e","t" >>
SpeechInputs == {<<>>, M_bill, M_ticket}

\* the count of consecutive empty speech inputs, kept up to MaxStreak
Bump(n) == IF n < MaxStreak THEN n + 1 ELSE n

\* the application's handler behind a TwiML url of a menu or a redirect
Dispatch(url, c, digits) ==
    CASE url = U_language -> handle_language_selection(c, digits)
      [] url = U_assistant -> handle_assistant_selection(c, digits)
      [] url = U_start -> start_conversation(c)

\* Twilio takes the response of the request just served as the call's TwiML
Takes(c) == call' = [call EXCEPT ![c] = [status |-> "in-progress", doc |-> ev'.resp]]

\* a call arrives under a CallSid that has no call in progress
IncomingCall(c, from) ==
    /\ ~InProgress(c)
    /\ handle_incoming_call(c, from)
    /\ Takes(c)
    /\ streak' = [streak EXCEPT ![c] = 0]
    /\ UNCHANGED <<tasks, running, turns, bg>>

\* Twilio speaks a <Say>
TwilioSay(c) ==
    /\ InProgress(c) /\ NextVerb(c).verb = "Say"
    /\ call' = [call EXCEPT ![c].doc = Tail(@)]
    /\ UNCHANGED <<call_sessions, nextOid, db, rows, meta, streak, ev, tasks, running, turns, bg>>

\* the caller presses a key at a digit <Gather>
PressDigits(c, d) ==
    /\ InProgress(c) /\ NextVerb(c).verb = "Gather" /\ NextVerb(c).input = "dtmf"
    /\ Dispatch(NextVerb(c).url, c, d)
    /\ Takes(c)
    /\ UNCHANGED <<streak, tasks, running, turns, bg>>

\* a speech <Gather> ends and Twilio posts its SpeechResult
Speak(c, text, gen, reply, save) ==
    /\ InProgress(c) /\ NextVerb(c).verb = "Gather" /\ NextVerb(c).input = "speech"
    /\ process_speech(c, text, gen, reply, save)
    /\ Takes(c)
    /\ streak' = [streak EXCEPT ![c] = IF text = <<>> THEN Bump(@) ELSE 0]
    /\ UNCHANGED <<tasks, running, turns, bg>>

\* a <Gather> times out with no input: Twilio goes on to the next verb
GatherTimeout(c) ==
    /\ InProgress(c) /\ NextVerb(c).verb = "Gather"
    /\ call' = [call EXCEPT ![c].doc = Tail(@)]
    /\ streak' = [streak EXCEPT ![c] = IF NextVerb(c).input = "speech"
                                       THEN Bump(@) ELSE @]
    /\ UNCHANGED <<call_sessions, nextOid, db, rows, meta, ev, tasks, running, turns, bg>>

\* Twilio follows a <Redirect>; the form it posts has no Digits field
FollowRedirect(c) ==
    /\ InProgress(c) /\ NextVerb(c).verb = "Redirect"
    /\ Dispatch(NextVerb(c).url, c, None)
    /\ Takes(c)
    /\ UNCHANGED <<streak, tasks, running, turns, bg>>

\* <Hangup>, or the end of the document: Twilio ends the call
TwilioHangup(c) ==
    /\ InProgress(c) /\ NextVerb(c).verb = "Hangup"
    /\ call' = [call EXCEPT ![c] = [status |-> "ended", doc |-> <<>>]]
    /\ UNCHANGED <<call_sessions, nextOid, db, rows, meta, streak, ev, tasks, running, turns, bg>>

\* Twilio reports a call status; a terminal one means the call is over
StatusCallback(c, s) ==
    /\ handle_status_callback(c, s)
    /\ call' = IF s \in {"completed", "failed", "busy", "no-answer", "canceled"}
               THEN [call EXCEPT ![c] = [status |-> "ended", doc |-> <<>>]]
               ELSE call
    /\ UNCHANGED <<streak, tasks, running, turns, bg>>

\* what one process-speech request can meet: the utterance, what the
\* generator does with it and what the store does with the turn
TurnChoices ==
    { t \in SpeechInputs \X {"none", "return", "raise"} \X Replies
                         \X (SaveOutcomes \cup {"none"}) :
        \/ t[1] = <<>> /\ t[2] = "none" /\ t[3] = <<>> /\ t[4] = "none"
        \/ t[1] # <<>> /\ t[2] = "raise" /\ t[3] = <<>> /\ t[4] = "none"
        \/ t[1] # <<>> /\ t[2] = "return" }

\* a callback that reaches the application for a call that is not in
\* progress (a late or repeated request): Twilio does not run its response
LateDigits(c, url, d) ==
    /\ ~InProgress(c)
    /\ Dispatch(url, c, d)
    /\ UNCHANGED <<call, streak, tasks, running, turns, bg>>

LateSpeech(c, text, gen, reply, save) ==
    /\ ~InProgress(c)
    /\ process_speech(c, text, gen, reply, save)
    /\ UNCHANGED <<call, streak, tasks, running, turns, bg>>

(***************************************************************************)
(* The telephony specification: Twilio drives a call through the IVR, the  *)
(* call ends, and its CallSid may ring again.  No durable store is         *)
(* configured here; the store's part of a turn is under SpecTurn.          *)
(***************************************************************************)
InitTables ==
    /\ call_sessions = <<>>
    /\ nextOid = 1
    /\ rows = <<>>
    /\ meta = <<>>
    /\ call = [c \in CallSids |-> [status |-> "none", doc |-> <<>>]]
    /\ streak = [c \in CallSids |-> 0]
    /\ ev = NoEvent
    /\ tasks = [t \in 1..NumTasks |-> IdleTask]
    /\ running = 0
    /\ turns = 0
    /\ bg = <<>>

Init == InitTables /\ db = FALSE

\* the call Twilio drives through the menus
FlowCalls == {"CA1"}

Next ==
    \/ \E c \in FlowCalls, from \in Phones : IncomingCall(c, from)
    \/ \E c \in FlowCalls : TwilioSay(c)
    \/ \E c \in FlowCalls, d \in DigitInputs : PressDigits(c, d)
    \/ \E c \in FlowCalls, t \in TurnChoices : Speak(c, t[1], t[2], t[3], t[4])
    \/ \E c \in FlowCalls : GatherTimeout(c)
    \/ \E c \in FlowCalls : FollowRedirect(c)
    \/ \E c \in FlowCalls : TwilioHangup(c)
    \/ \E c \in FlowCalls, s \in CallStatuses : StatusCallback(c, s)
    \/ \E c \in FlowCalls, url \in {U_language, U_assistant, U_start}, d \in DigitInputs \cup {None} :
          LateDigits(c, url, d)
    \/ \E c \in FlowCalls, t \in TurnChoices :
          LateSpeech(c, t[1], t[2], t[3], t[4])

Spec == Init /\ [][Next]_vars

\* The requests of two CallSids in any order: calls that come in and end,
\* and requests that reach the application outside a call in progress
NextFrame ==
    \/ \E c \in CallSids, from \in Phones : IncomingCall(c, from)
    \/ \E c \in CallSids, s \in {"completed", "in-progress"} : StatusCallback(c, s)
    \/ \E c \in CallSids, url \in {U_language, U_assistant, U_start},
          d \in {"1", "3", "7", None} : LateDigits(c, url, d)
    \/ \E c \in CallSids, t \in TurnChoices :
          LateSpeech(c, t[1], t[2], t[3], t[4])

SpecFrame == Init /\ [][NextFrame]_vars

(***************************************************************************)
(* routes/voice.py: the voice pipelines.                                   *)
(***************************************************************************)
\* the explicit ticket requests (line 85), in list order
TicketPhrases ==
    << <<"o","p","e","n"," ","a"," ","t","i","c","k","e","t">>,
       <<"o","p","e","n"," ","t","h","e"," ","t","i","c","k","e","t">>,
       <<"c","r","e","a","t","e"," ","a"," ","t","i","c","k","e","t">>,
       <<"r","a","i","s","e"," ","a"," ","t","i","c","k","e","t">>,
       <<"s","u","b","m","i","t"," ","a"," ","t","i","c","k","e","t">> >>

\* the ticket test on the transcription as typed, without .lower()
HasTicketPhraseAsTyped(transcription) ==
    \E i \in 1..Len(TicketPhrases) : Contains(transcription, TicketPhrases[i])

\* `any(phrase in transcription_lower for phrase in [...])`
HasTicketPhrase(transcription) ==
    \E i \in 1..Len(TicketPhrases) : Contains(Lower(transcription), TicketPhrases[i])

\* "technical difficulties" (line 104)
FailurePhrase ==
    << "t","e","c","h","n","i","c","a","l"," ","d","i","f","f","i","c","u",
       "l","t","i","e","s" >>

\* a failure test that takes every reply for a failed one
IsFailedReplyAlways(ai_response) == TRUE

\* `not ai_response or "technical difficulties" in ai_response.lower()`
IsFailedReply(ai_response) ==
    ai_response = <<>> \/ Contains(Lower(ai_response), FailurePhrase)

\* what create_trello_card returns when the card is made
TicketUrl ==
    << "h","t","t","p","s",":","/","/","t","r","e","l","l","o",".","c","o",
       "m","/","c","/","1" >>

\* f"A support ticket has been created: {ticket_url}"
TicketCreatedReply(ticket_url) ==
    << "A"," ","s","u","p","p","o","r","t"," ","t","i","c","k","e","t"," ",
       "h","a","s"," ","b","e","e","n"," ","c","r","e","a","t","e","d",":",
       " " >>
    \o ticket_url

\* "I'll create a support ticket for you right away."
TicketPromisedReply ==
    << "I","'","l","l"," ","c","r","e","a","t","e"," ","a"," ","s","u","p",
       "p","o","r","t"," ","t","i","c","k","e","t"," ","f","o","r"," ","y",
       "o","u"," ","r","i","g","h","t"," ","a","w","a","y","." >>

\* f"I'm having technical issues. A support ticket was created: {ticket_url}"
TicketFallbackReply(ticket_url) ==
    << "I","'","m"," ","h","a","v","i","n","g"," ","t","e","c","h","n","i",
       "c","a","l"," ","i","s","s","u","e","s","."," ","A"," ","s","u","p",
       "p","o","r","t"," ","t","i","c","k","e","t"," ","w","a","s"," ","c",
       "r","e","a","t","e","d",":"," " >>
    \o ticket_url

\* what clients say: a plain request, requests with each ticket phrase in
\* some letter case and place, and a near miss
\* "reopen the ticket"
M_reopen ==
    << "r","e","o","p","e","n"," ","t","h","e"," ","t","i","c","k","e","t" >>
\* "my bill create A Ticket"
M_create ==
    << "m","y"," ","b","i","l","l"," ","c","r","e","a","t","e"," ","A"," ",
       "T","i","c","k","e","t" >>
\* "raise a ticket please"
M_raise ==
    << "r","a","i","s","e"," ","a"," ","t","i","c","k","e","t"," ","p","l",
       "e","a","s","e" >>
\* "Submit a tickets"
M_submit ==
    << "S","u","b","m","i","t"," ","a"," ","t","i","c","k","e","t","s" >>
\* "open tickets please"
M_near ==
    << "o","p","e","n"," ","t","i","c","k","e","t","s"," ","p","l","e","a",
       "s","e" >>

\* the texts of the model and what the turn computes from each, worked out
\* once: the ticket-phrase test, the extractions and the failure test
Texts == {M_bill, M_ticket, M_reopen, M_create, M_raise, M_submit, M_near} \cup SpeechInputs
ManualOf == [t \in Texts |-> HasTicketPhrase(t)]
NameOf == [t \in Texts |-> extract_user_name(t)]
IssueOf == [t \in Texts |-> extract_issue_type(t)]
FailedOf == [r \in Replies |-> IsFailedReply(r)]

\* get_optional_user: nobody (None), or the user of the bearer token
NoUser == [user_id |-> None, email |-> None]
Users == {NoUser, [user_id |-> "u1", email |-> "sami@example.com"]}

\* str(uuid.uuid4()): an identifier no session has; one for each turn served
UuidPool == <<"uuid-1", "uuid-2", "uuid-3", "uuid-4">>
Uuid4 == UuidPool[turns + 1]

\* `request.sessionId or str(uuid.uuid4())`
SessionIdOf(request) ==
    IF request.sessionId # None THEN request.sessionId ELSE Uuid4

\* `"Slah" if request.assistantId == 1 else "Amira"`; 0 stands for None
AssistantName(assistantId) == IF assistantId = 1 THEN "Slah" ELSE "Amira"

\* `request.assistantId or 1`
AssistantIdOr1(assistantId) == IF assistantId # 0 THEN assistantId ELSE 1

\* the rows of a session, in timestamp order
SessionRows(r, session_id) ==
    LET OfSession(row) == row.session_id = session_id
    IN  SelectSeq(r, OfSession)

\* the history query: SELECT user_message, ai_response ... ORDER BY
\* timestamp ASC LIMIT 10, as a list of turns
LoadHistory(session_id) ==
    LET q == FirstN(SessionRows(rows, session_id), HistoryLimit)
    IN  [i \in 1..Len(q) |-> Turn(q[i].user_message, q[i].ai_response)]

\* conversationHistory of the authenticated pipeline: every row of the
\* session in store r
FetchHistory(r, session_id) ==
    LET q == SessionRows(r, session_id)
    IN  [i \in 1..Len(q) |->
            [user |-> q[i].user_message, ai |-> q[i].ai_response,
             user_audio_path |-> q[i].user_audio_path,
             ai_audio_path |-> q[i].ai_audio_path]]

\* the persisted history first, the client's only when there is none
HistoryToUseStoredFirst(history, conversation_history_list) ==
    IF conversation_history_list # <<>> THEN conversation_history_list ELSE history

\* `history_to_use = request.history if request.history else
\* conversation_history_list`
HistoryToUse(history, conversation_history_list) ==
    IF history # <<>> THEN history ELSE conversation_history_list

\* create_trello_card: a url, None (null), or an exception
TicketOutcomes == {"url", "null", "raise"}

\* what the store does in a voice turn: "down" fails the history query, the
\* save and the fetch; "fail_commit" is the authenticated pipeline's insert
\* returning an id and its commit raising
AuthStoreOutcomes == SaveOutcomes \cup {"fail_commit", "down"}
GuestStoreOutcomes == SaveOutcomes \cup {"down"}

\* background_tasks.add_task(...)
Job(kind, session_id, conversation_id) ==
    [kind |-> kind, session_id |-> session_id, conversation_id |-> conversation_id]

\* POST /api/voice-pipeline-auth.  gen, reply, ticket and store are what the
\* generator, create_trello_card and the store do in this request
process_voice_with_auth(request, current_user, gen, reply, ticket, store) ==
    LET session_id == SessionIdOf(request)
        user_id == current_user.user_id
        assistant_name == AssistantName(request.assistantId)
        extracted_name == NameOf[request.transcription]
        extracted_issue == IssueOf[request.transcription]
        conversation_history_list ==
            IF db /\ store # "down" THEN LoadHistory(session_id) ELSE <<>>
        history_to_use == HistoryToUse(request.history, conversation_history_list)
        conversation_context == Context(history_to_use, request.transcription)
        manual == ManualOf[request.transcription]
        fallback == ~manual /\ gen = "return" /\ FailedOf[reply]
        raised == gen = "raise" \/ ticket = "raise"
        ai_response ==
            IF manual
            THEN IF ticket = "url" THEN TicketCreatedReply(TicketUrl)
                 ELSE TicketPromisedReply
            ELSE IF fallback /\ ticket = "url" THEN TicketFallbackReply(TicketUrl)
            ELSE reply
        st == StoreAfterSave(store, session_id, request.language,
                             AssistantIdOr1(request.assistantId), user_id,
                             extracted_name, extracted_issue,
                             request.transcription, ai_response)
        conversation_id ==
            IF db /\ store \in {"ok", "fail_commit"} THEN Len(rows) + turns + 1 ELSE 0
        jobs ==
            IF conversation_id = 0 THEN <<>>
            ELSE (IF request.audioData
                  THEN <<Job("save_audio", session_id, conversation_id)>>
                  ELSE <<>>)
                 \o <<Job("generate_ai_audio", session_id, conversation_id)>>
        req == [Request("voice-pipeline-auth", session_id) EXCEPT
                  !.speech = request.transcription,
                  !.session_id = session_id,
                  !.client = request.history,
                  !.persona = assistant_name,
                  !.gen = gen,
                  !.prompt = IF gen = "none" THEN NoContext ELSE conversation_context,
                  !.reply = reply,
                  !.ticket = ticket,
                  !.tickets = IF ticket = "none" THEN 0 ELSE 1]
    IN  /\ gen \in (IF manual THEN {"none"} ELSE GenOutcomes)
        /\ reply \in (IF gen = "return" THEN Replies ELSE {<<>>})
        /\ ticket \in (IF manual \/ fallback THEN TicketOutcomes ELSE {"none"})
        /\ store \in (IF ~db THEN {"none"}
                      ELSE IF raised THEN {"ok", "down"}
                      ELSE AuthStoreOutcomes)
        /\ IF raised
           THEN /\ ev' = [req EXCEPT !.http = 500]
                /\ UNCHANGED <<rows, meta>>
           ELSE /\ CanSave(store)
                /\ rows' = IF db THEN st.rows ELSE rows
                /\ meta' = IF db THEN st.meta ELSE meta
                /\ ev' = [req EXCEPT
                            !.save = store,
                            !.answer = ai_response,
                            !.jobs = jobs,
                            !.audioSaved = [user |-> "processing", ai |-> "processing"],
                            !.history = IF db /\ store # "down"
                                        THEN FetchHistory(st.rows, session_id)
                                        ELSE <<>>]
        /\ UNCHANGED <<call_sessions, nextOid, db>>

\* a guest pipeline with the ticket check of the authenticated one in front
\* of the generator (gen and reply are what the generator would do if called)
process_voice_with_ticket_check(request, gen, reply, store) ==
    LET session_id == SessionIdOf(request)
        manual == ManualOf[request.transcription]
        req == [Request("voice-pipeline", session_id) EXCEPT
                  !.speech = request.transcription,
                  !.session_id = session_id]
    IN  /\ gen = "return"
        /\ reply \in (IF manual THEN {<<>>} ELSE Replies)
        /\ store = (IF db THEN "down" ELSE "none")
        /\ ev' = IF manual
                 THEN [req EXCEPT !.ticket = "null", !.tickets = 1,
                                  !.save = store, !.answer = TicketPromisedReply]
                 ELSE [req EXCEPT !.gen = gen, !.reply = reply, !.save = store,
                                  !.prompt = Context(request.history,
                                                     request.transcription),
                                  !.answer = reply]
        /\ UNCHANGED <<rows, meta, call_sessions, nextOid, db>>

\* a guest pipeline that fails the turn when there is no store to load the
\* history from
process_voice_store_required(request, gen, reply, store) ==
    LET session_id == SessionIdOf(request)
        req == [Request("voice-pipeline", session_id) EXCEPT
                  !.speech = request.transcription,
                  !.session_id = session_id,
                  !.client = request.history]
    IN  /\ gen = "return" /\ reply = R_ok
        /\ store = (IF db THEN "down" ELSE "none")
        /\ ev' = IF db
                 THEN [req EXCEPT !.gen = gen, !.reply = reply, !.save = store,
                                  !.prompt = Context(request.history,
                                                     request.transcription),
                                  !.answer = reply]
                 ELSE [req EXCEPT !.http = 500]
        /\ UNCHANGED <<rows, meta, call_sessions, nextOid, db>>

\* POST /api/voice-pipeline
process_voice(request, gen, reply, store) ==
    LET session_id == SessionIdOf(request)
        assistant_name == AssistantName(request.assistantId)
        extracted_name == NameOf[request.transcription]
        extracted_issue == IssueOf[request.transcription]
        conversation_history_list ==
            IF db /\ store # "down" THEN LoadHistory(session_id) ELSE <<>>
        history_to_use == HistoryToUse(request.history, conversation_history_list)
        conversation_context == Context(history_to_use, request.transcription)
        ai_response == reply
        st == StoreAfterSave(store, session_id, request.language,
                             AssistantIdOr1(request.assistantId), None,
                             extracted_name, extracted_issue,
                             request.transcription, ai_response)
        updated_history ==
            Append([i \in 1..Len(history_to_use) |->
                       Turn(history_to_use[i].user, history_to_use[i].ai)],
                   Turn(request.transcription, ai_response))
        req == [Request("voice-pipeline", session_id) EXCEPT
                  !.speech = request.transcription,
                  !.session_id = session_id,
                  !.client = request.history,
                  !.persona = assistant_name,
                  !.gen = gen,
                  !.prompt = conversation_context,
                  !.reply = reply]
    IN  /\ gen \in GenOutcomes
        /\ reply \in (IF gen = "return" THEN Replies ELSE {<<>>})
        /\ store \in (IF ~db THEN {"none"}
                      ELSE IF gen = "raise" THEN {"ok", "down"}
                      ELSE GuestStoreOutcomes)
        /\ IF gen = "raise"
           THEN /\ ev' = [req EXCEPT !.http = 500]
                /\ UNCHANGED <<rows, meta>>
           ELSE /\ CanSave(store)
                /\ rows' = IF db THEN st.rows ELSE rows
                /\ meta' = IF db THEN st.meta ELSE meta
                /\ ev' = [req EXCEPT
                            !.save = store,
                            !.answer = ai_response,
                            !.history = updated_history]
        /\ UNCHANGED <<call_sessions, nextOid, db>>

(***************************************************************************)
(* The background tasks.  A handler's BackgroundTasks are run by the       *)
(* server after it has sent the response, one after the other in the order *)
(* of add_task; the tasks of different responses run apart.  The tasks     *)
(* themselves are utils/audio_utils.py.                                    *)
(***************************************************************************)
\* a handler that runs its tasks to their end before it returns
ScheduleInline(queue, jobs, turn) ==
    queue \o [i \in 1..Len(jobs) |-> [job |-> jobs[i], turn |-> turn, state |-> "done"]]

\* background_tasks.add_task for each job of the turn: queued, not started
Schedule(queue, jobs, turn) ==
    queue \o [i \in 1..Len(jobs) |-> [job |-> jobs[i], turn |-> turn, state |-> "pending"]]

\* task i is the next of its response: those added before it have ended
CanStart(i) ==
    /\ bg[i].state = "pending"
    /\ \A j \in 1..(i - 1) :
          bg[j].turn = bg[i].turn => bg[j].state \in {"done", "failed"}

StartJob(i) ==
    /\ i \in DOMAIN bg
    /\ CanStart(i)
    /\ bg' = [bg EXCEPT ![i].state = "running"]
    /\ UNCHANGED <<call_sessions, nextOid, db, rows, meta, call, streak, ev, tasks,
                   running, turns>>

\* the task ends well: the audio is stored and its path written to the
\* turn's row, if there is one (save_audio_in_background the caller's,
\* generate_ai_audio_in_background the reply's)
FinishJob(i) ==
    /\ i \in DOMAIN bg
    /\ bg[i].state = "running"
    /\ bg' = [bg EXCEPT ![i].state = "done"]
    /\ rows' = [k \in 1..Len(rows) |->
                  IF rows[k].id # bg[i].job.conversation_id THEN rows[k]
                  ELSE IF bg[i].job.kind = "save_audio"
                  THEN [rows[k] EXCEPT !.user_audio_path = "user_audio"]
                  ELSE [rows[k] EXCEPT !.ai_audio_path = "ai_audio"]]
    /\ UNCHANGED <<call_sessions, nextOid, db, meta, call, streak, ev, tasks,
                   running, turns>>

\* the task fails: the failure is logged and nothing is written
FailJob(i) ==
    /\ i \in DOMAIN bg
    /\ bg[i].state = "running"
    /\ bg' = [bg EXCEPT ![i].state = "failed"]
    /\ UNCHANGED <<call_sessions, nextOid, db, rows, meta, call, streak, ev, tasks,
                   running, turns>>

(***************************************************************************)
(* The turn specification: clients post to the two voice pipelines and     *)
(* Twilio posts speech, with or without a durable store.                   *)
(***************************************************************************)
\* a history the client sends along
ClientHistory == <<Turn(M_bill, R_ok)>>

\* the body of a request to a voice pipeline
VoiceRequest(transcription, language, assistantId, sessionId, history, audioData) ==
    [ transcription |-> transcription, language |-> language,
      assistantId |-> assistantId, sessionId |-> sessionId,
      history |-> history, audioData |-> audioData ]

VoiceRequests ==
    { VoiceRequest(M_bill, "en-US", 1, "s1", <<>>, FALSE),
      VoiceRequest(M_bill, "fr-FR", 0, None, ClientHistory, TRUE),
      VoiceRequest(M_ticket, "fr-FR", 2, None, <<>>, TRUE),
      VoiceRequest(M_reopen, "en-US", 0, "s1", ClientHistory, FALSE),
      VoiceRequest(M_create, "ar-SA", 2, "s1", <<>>, TRUE),
      VoiceRequest(M_raise, "en-US", 1, None, <<>>, FALSE),
      VoiceRequest(M_submit, "en-US", 2, "s1", <<>>, FALSE),
      VoiceRequest(M_near, "en-US", 1, "s1", <<>>, TRUE) }

\* what the collaborators can do in one request
AuthChoices == (GenOutcomes \cup {"none"}) \X Replies
                   \X (TicketOutcomes \cup {"none"})
                   \X (AuthStoreOutcomes \cup {"none"})
GuestChoices == GenOutcomes \X Replies \X (GuestStoreOutcomes \cup {"none"})

VoiceAuth(request, current_user, c) ==
    /\ turns < MaxTurns
    /\ process_voice_with_auth(request, current_user, c[1], c[2], c[3], c[4])
    /\ turns' = turns + 1
    /\ bg' = Schedule(bg, ev'.jobs, turns + 1)
    /\ UNCHANGED <<call, streak, tasks, running>>

VoiceGuest(request, c) ==
    /\ turns < MaxTurns
    /\ process_voice(request, c[1], c[2], c[3])
    /\ turns' = turns + 1
    /\ UNCHANGED <<call, streak, tasks, running, bg>>

\* Twilio posts the speech of a call to process-speech
PhoneTurn(c, t) ==
    /\ turns < MaxTurns
    /\ process_speech(c, t[1], t[2], t[3], t[4])
    /\ turns' = turns + 1
    /\ UNCHANGED <<call, streak, tasks, running, bg>>

InitTurn == InitTables /\ db \in BOOLEAN

NextTurn ==
    \/ \E request \in VoiceRequests, current_user \in Users, c \in AuthChoices :
          VoiceAuth(request, current_user, c)
    \/ \E request \in VoiceRequests, c \in GuestChoices : VoiceGuest(request, c)
    \/ \E c \in FlowCalls, t \in TurnChoices : PhoneTurn(c, t)

SpecTurn == InitTurn /\ [][NextTurn]_vars

\* The sidecar specification: authenticated turns of one session and the
\* background tasks they leave behind, which start, end or stay as they are
NextSidecar ==
    \/ \E request \in {r \in VoiceRequests : r.sessionId = "s1"},
          c \in {"return", "none"} \X {R_ok} \X {"none", "url"}
                   \X (AuthStoreOutcomes \cup {"none"}) :
          VoiceAuth(request, NoUser, c)
    \/ \E i \in 1..(2 * MaxTurns) : StartJob(i)
    \/ \E i \in 1..(2 * MaxTurns) : FinishJob(i)
    \/ \E i \in 1..(2 * MaxTurns) : FailJob(i)

SpecSidecar == InitTurn /\ [][NextSidecar]_vars

(***************************************************************************)
(* The context specification: voice turns on a store that already holds a  *)
(* long session, with client histories shorter and longer than the window. *)
(***************************************************************************)
\* the text of prefix followed by the number i in decimal, as "q12"
Numbered(prefix, i) ==
    LET digit == << "0","1","2","3","4","5","6","7","8","9" >>
    IN  << prefix >> \o (IF i < 10 THEN << digit[i + 1] >>
                         ELSE << digit[(i \div 10) + 1], digit[(i % 10) + 1] >>)

\* request.history of n turns, oldest first
ClientTurns(n) == [i \in 1..n |-> Turn(Numbered("q", i), Numbered("a", i))]

\* table conversations after n turns were saved: all of session "s1" but the
\* second, which is of session "s2"
RECURSIVE StoredRows(_)
StoredRows(n) ==
    IF n = 0 THEN <<>>
    ELSE LET r == StoredRows(n - 1)
         IN  Append(r, ConversationRow(r, IF n = 2 THEN "s2" ELSE "s1",
                                       Numbered("p", n), Numbered("r", n),
                                       "en-US", None))

\* the requests: with and without a ticket phrase, for the stored session or
\* a new one, with a history of no turn, one turn, a full window, or more
ContextRequests ==
    { VoiceRequest(t, "en-US", 1, sid, ClientTurns(n), FALSE) :
        t \in {M_bill, M_ticket}, sid \in {"s1", None},
        n \in {0, 1, ContextWindow, MaxHistory} }

\* no store, or a store that holds 0, 1, MaxHistory - 1 or MaxHistory turns
InitContext ==
    /\ call_sessions = <<>>
    /\ nextOid = 1
    /\ turns = 0
    /\ \E n \in {0, 1, MaxHistory - 1, MaxHistory} :
          /\ db \in (IF n = 0 THEN BOOLEAN ELSE {TRUE})
          /\ rows = StoredRows(n)
          /\ meta = [k \in {StoredRows(n)[i].session_id : i \in 1..n} |->
                       [language |-> "en-US", assistant_id |-> 1, user_id |-> None,
                        user_name |-> <<>>, issue_type |-> None]]
    /\ call = [c \in CallSids |-> [status |-> "none", doc |-> <<>>]]
    /\ streak = [c \in CallSids |-> 0]
    /\ ev = NoEvent
    /\ tasks = [t \in 1..NumTasks |-> IdleTask]
    /\ running = 0
    /\ bg = <<>>

NextContext ==
    \/ \E request \in ContextRequests, current_user \in Users,
          c \in {"return", "none"} \X {R_ok} \X {"none", "url"}
                   \X {"ok", "fail_conversation", "down", "none"} :
          VoiceAuth(request, current_user, c)
    \/ \E request \in ContextRequests,
          c \in {"return"} \X {R_ok} \X {"ok", "fail_conversation", "down", "none"} :
          VoiceGuest(request, c)

SpecContext == InitContext /\ [][NextContext]_vars

(***************************************************************************)
(* The event loop.  uvicorn runs the application in one process on one     *)
(* asyncio loop (app.py, uvicorn.run); a handler declared `async def` is a *)
(* coroutine that keeps the loop from its first statement to its return    *)
(* unless it awaits.  Here the handlers run statement by statement.        *)
(***************************************************************************)
\* handlers declared `def`: the server runs them on threads, which may be
\* switched after any statement
AwaitAnywhere ==
    {"goc_check", "goc_insert", "goc_return", "set_info", "get", "set_lang",
     "st_status", "st_check", "st_del", "load", "respond"}

\* the statements after which a handler gives the loop back before it
\* returns: the telephony handlers, get_or_create_call_session and the two
\* voice pipelines contain no await
AwaitPoints == {}

\* the first statement of each handler that touches the table
FirstStatement(ep) ==
    CASE ep = "incoming-call" -> "goc_check"
      [] ep = "language-selection" -> "get"
      [] ep = "status-callback" -> "st_status"

\* `session.<field> = value` on the object the task holds: the table shows
\* it when that object is still the one stored under the key
SetField(tbl, sid, held, field, value) ==
    IF sid \in DOMAIN tbl /\ tbl[sid].oid = held
    THEN [tbl EXCEPT ![sid][field] = value]
    ELSE tbl

\* one statement of get_or_create_call_session (lines 15, 16, 17) by task k
GocStatement(k, tbl, oid) ==
    CASE k.pc = "goc_check" ->
            [tbl |-> tbl, next |-> oid,
             task |-> [k EXCEPT !.pc = IF k.sid \notin DOMAIN tbl
                                       THEN "goc_insert" ELSE "goc_return"]]
      [] k.pc = "goc_insert" ->
            [tbl |-> [c \in (DOMAIN tbl) \cup {k.sid} |->
                        IF c = k.sid THEN CallSession(oid, k.sid, k.phone)
                        ELSE tbl[c]],
             next |-> oid + 1,
             task |-> [k EXCEPT !.pc = "goc_return"]]
      [] k.pc = "goc_return" ->
            [tbl |-> tbl, next |-> oid,
             task |-> IF k.sid \in DOMAIN tbl
                      THEN [k EXCEPT !.held = tbl[k.sid].oid,
                                     !.pc = IF k.ep = "incoming-call"
                                            THEN "set_info" ELSE "set_lang"]
                      ELSE [k EXCEPT !.pc = "error"]]

\* one statement of handle_incoming_call (line 51) or of
\* handle_language_selection (lines 92-94, 97-98) by task k
HandlerStatement(k, tbl, oid) ==
    CASE k.pc = "set_info" ->
            [tbl |-> SetField(tbl, k.sid, k.held, "caller_info",
                              identify_caller_by_phone(k.phone)),
             next |-> oid, task |-> [k EXCEPT !.pc = "done"]]
      [] k.pc = "get" ->
            [tbl |-> tbl, next |-> oid,
             task |-> IF k.sid \in DOMAIN tbl
                      THEN [k EXCEPT !.held = tbl[k.sid].oid, !.pc = "set_lang"]
                      ELSE [k EXCEPT !.phone = "unknown", !.pc = "goc_check"]]
      [] k.pc = "set_lang" ->
            [tbl |-> SetField(tbl, k.sid, k.held, "language",
                              SelectLanguage(FormValue(k.digits, "1")).code),
             next |-> oid, task |-> [k EXCEPT !.pc = "done"]]

\* one statement of handle_status_callback (lines 316, 317, 318) by task k
StatusStatement(k, tbl, oid) ==
    CASE k.pc = "st_status" ->
            [tbl |-> tbl, next |-> oid,
             task |-> [k EXCEPT !.pc = IF k.status \in TerminalStatuses
                                       THEN "st_check" ELSE "done"]]
      [] k.pc = "st_check" ->
            [tbl |-> tbl, next |-> oid,
             task |-> [k EXCEPT !.pc = IF k.sid \in DOMAIN tbl
                                       THEN "st_del" ELSE "done"]]
      [] k.pc = "st_del" ->
            [tbl |-> IF k.sid \in DOMAIN tbl THEN Without(tbl, k.sid) ELSE tbl,
             next |-> oid,
             task |-> [k EXCEPT !.pc = IF k.sid \in DOMAIN tbl
                                       THEN "done" ELSE "error"]]

Statement(k, tbl, oid) ==
    IF k.pc \in {"goc_check", "goc_insert", "goc_return"}
    THEN GocStatement(k, tbl, oid)
    ELSE IF k.pc \in {"set_info", "get", "set_lang"}
    THEN HandlerStatement(k, tbl, oid)
    ELSE StatusStatement(k, tbl, oid)

Finished(k) == k.pc \in {"done", "error"}
InFlight(k) == k.pc \notin {"idle", "done", "error"}

\* the requests that reach the loop, all for the CallSid of one call
LoopRequests ==
    { [IdleTask EXCEPT !.ep = "incoming-call", !.sid = c, !.phone = p] :
        c \in FlowCalls, p \in Phones }
    \cup { [IdleTask EXCEPT !.ep = "language-selection", !.sid = c, !.digits = d] :
        c \in FlowCalls, d \in {"3", None} }
    \cup { [IdleTask EXCEPT !.ep = "status-callback", !.sid = c, !.status = st] :
        c \in FlowCalls, st \in {"completed", "no-answer", "in-progress"} }

\* a request arrives: the server makes a coroutine of its handler, here in
\* the first slot that is free
Arrive(t, r) ==
    /\ tasks[t].pc = "idle"
    /\ \A u \in 1..(t - 1) : tasks[u].pc # "idle"
    /\ tasks' = [tasks EXCEPT ![t] =
                    [r EXCEPT !.pc = FirstStatement(r.ep),
                              !.absent0 = r.sid \notin DOMAIN call_sessions]]
    /\ UNCHANGED <<call_sessions, nextOid, db, rows, meta, call, streak, ev, running, turns, bg>>

\* the loop runs the next statement of task t: a task that holds the loop
\* goes on, and a free loop takes any task that is ready.  A handler that
\* returns sends its response and leaves its slot; one that raised stays
Run(t) ==
    LET k == tasks[t]
        r == Statement(k, call_sessions, nextOid)
    IN  /\ InFlight(k)
        /\ running \in {0, t}
        /\ k.pc = "goc_insert" => nextOid <= MaxObjects
        /\ call_sessions' = r.tbl
        /\ nextOid' = r.next
        /\ tasks' = [tasks EXCEPT ![t] = IF r.task.pc = "done" THEN IdleTask
                                          ELSE r.task]
        /\ running' = IF Finished(r.task) \/ k.pc \in AwaitPoints THEN 0 ELSE t
        /\ UNCHANGED <<db, rows, meta, call, streak, ev, turns, bg>>

NextLoop ==
    \/ \E t \in 1..NumTasks, r \in LoopRequests : Arrive(t, r)
    \/ \E t \in 1..NumTasks : Run(t)

SpecLoop == Init /\ [][NextLoop]_vars

(***************************************************************************)
(* The voice pipelines on the loop (routes/voice.py).  A turn is three     *)
(* statements: "load" runs the history query, "respond" builds the context *)
(* and gets the reply, "save" writes the session and the turn.             *)
(***************************************************************************)
\* a request to a voice pipeline arrives and gets the first free slot
ArriveVoice(t, ep, request) ==
    /\ tasks[t].pc = "idle"
    /\ \A u \in 1..(t - 1) : tasks[u].pc # "idle"
    /\ tasks' = [tasks EXCEPT ![t] =
                    [pc |-> "load", ep |-> ep, request |-> request,
                     session_id |-> request.sessionId, read |-> FALSE,
                     loaded |-> <<>>, prompt |-> NoContext, reply |-> <<>>,
                     row |-> 0, seq |-> 0]]
    /\ UNCHANGED <<call_sessions, nextOid, db, rows, meta, call, streak, ev,
                   running, turns, bg>>

\* the loop runs the next statement of voice task t; reply is what the
\* generator returns and store what the store does in that statement
RunVoice(t, reply, store) ==
    LET k == tasks[t]
        request == k.request
        manual == k.ep = "voice-pipeline-auth" /\ ManualOf[request.transcription]
        st == StoreAfterSave(store, k.session_id, request.language,
                             AssistantIdOr1(request.assistantId), None,
                             NameOf[request.transcription],
                             IssueOf[request.transcription],
                             request.transcription, k.reply)
        after ==
            CASE k.pc = "load" ->
                    [k EXCEPT !.pc = "respond",
                              !.read = db /\ store = "ok",
                              !.loaded = IF db /\ store = "ok"
                                         THEN LoadHistory(k.session_id)
                                         ELSE <<>>]
              [] k.pc = "respond" ->
                    [k EXCEPT !.pc = "save",
                              !.prompt = Context(HistoryToUse(request.history, k.loaded),
                                                 request.transcription),
                              !.reply = IF manual THEN TicketPromisedReply
                                        ELSE reply]
              [] k.pc = "save" ->
                    [k EXCEPT !.pc = "done",
                              !.seq = turns + 1,
                              !.row = IF db /\ store = "ok"
                                      THEN Len(rows) + turns + 1 ELSE 0]
    IN  /\ k.pc \in {"load", "respond", "save"}
        /\ running \in {0, t}
        /\ reply \in (IF k.pc = "respond" /\ ~manual THEN {R_ok, R_failure}
                       ELSE {R_ok})
        /\ store \in (CASE k.pc = "load" -> {"ok", "down"}
                         [] k.pc = "respond" -> {"ok"}
                         [] k.pc = "save" -> {"ok", "fail_conversation"})
        /\ tasks' = [tasks EXCEPT ![t] = after]
        /\ running' = IF after.pc = "done" \/ k.pc \in AwaitPoints THEN 0 ELSE t
        /\ IF k.pc = "save"
           THEN /\ CanSave(store)
                /\ rows' = IF db THEN st.rows ELSE rows
                /\ meta' = IF db THEN st.meta ELSE meta
                /\ turns' = turns + 1
           ELSE UNCHANGED <<rows, meta, turns>>
        /\ UNCHANGED <<call_sessions, nextOid, db, call, streak, ev, bg>>

\* turns of sessions "s1" and "s2" on the two pipelines: with and without
\* a history of the client's, with and without a ticket phrase
NextVoiceLoop ==
    \/ \E t \in 1..NumTasks,
          r \in { <<"voice-pipeline", VoiceRequest(M_bill, "en-US", 1, "s1", <<>>, FALSE)>>,
                  <<"voice-pipeline", VoiceRequest(M_bill, "en-US", 1, "s2", <<>>, FALSE)>>,
                  <<"voice-pipeline", VoiceRequest(M_bill, "en-US", 1, "s1", ClientHistory, FALSE)>>,
                  <<"voice-pipeline-auth", VoiceRequest(M_bill, "en-US", 1, "s1", <<>>, FALSE)>>,
                  <<"voice-pipeline-auth", VoiceRequest(M_ticket, "en-US", 1, "s1", <<>>, FALSE)>> } :
          ArriveVoice(t, r[1], r[2])
    \/ \E t \in 1..NumTasks, reply \in {R_ok, R_failure},
          store \in {"ok", "fail_conversation", "down"} : RunVoice(t, reply, store)

SpecVoiceLoop == InitTurn /\ [][NextVoiceLoop]_vars

(***************************************************************************)
(* The extraction specification: extract_issue_type on its own, called     *)
(* with texts of one to three words.                                       *)
(***************************************************************************)
\* the texts: no word, or words that are keywords of the issue types (some
\* of two types, some in capitals) and one that is none, with spaces between
IssueInputs ==
    LET W == { <<"b","i","l","l">>, <<"p","a","y","m","e","n","t">>,
               <<"W","i","F","i">>, <<"s","l","o","w">>, <<"p","h","o","n","e">>,
               <<"M","O","B","I","L","E">>, <<"h","e","l","p">>,
               <<"l","o","g","i","n">>, <<"c","o","n","n","e","x","i","o","n">>,
               <<"p","l","a","n">>, <<"h","e","l","l","o">> }
        V == { <<"b","i","l","l">>, <<"s","l","o","w">>, <<"W","i","F","i">>,
               <<"p","l","a","n">> }
    IN  {<<>>} \cup W
        \cup { a \o <<" ">> \o b : a \in W, b \in W }
        \cup { a \o <<" ">> \o b \o <<" ">> \o c : a \in V, b \in V, c \in V }

\* the text the caller of extract_issue_type has at hand
InitIssue ==
    /\ call_sessions = <<>>
    /\ nextOid = 1
    /\ db = FALSE
    /\ rows = <<>>
    /\ meta = <<>>
    /\ call = [c \in CallSids |-> [status |-> "none", doc |-> <<>>]]
    /\ streak = [c \in CallSids |-> 0]
    /\ \E input_text \in IssueInputs : ev = [NoEvent EXCEPT !.speech = input_text]
    /\ tasks = [t \in 1..NumTasks |-> IdleTask]
    /\ running = 0
    /\ turns = 0
    /\ bg = <<>>

\* `extracted_issue = extract_issue_type(request.transcription)`
ExtractIssue ==
    /\ ev.ep = "init"
    /\ ev' = [ep |-> "extract_issue_type", speech |-> ev.speech,
              issue |-> extract_issue_type(ev.speech)]
    /\ UNCHANGED <<call_sessions, nextOid, db, rows, meta, call, streak, tasks,
                   running, turns, bg>>

SpecIssue == InitIssue /\ [][ExtractIssue]_vars

(***************************************************************************)
(* Properties of the session table and of the IVR.                         *)
(***************************************************************************)
CallerPhones == Phones \cup {"unknown"}

\* C1: for every key, two calls of get_or_create_call_session with no
\* removal between them return the same session object: the second call
\* constructs nothing (no new object identity), leaves language, persona and
\* caller info as they were and ignores its caller_phone argument.
C1_GetOrCreateSameObject ==
    /\ \A k \in CallSids, p1 \in CallerPhones, p2 \in CallerPhones :
          LET g1 == get_or_create_call_session(call_sessions, nextOid, k, p1)
              g2 == get_or_create_call_session(g1.tbl, g1.next, k, p2)
          IN  /\ g2.session = g1.session
              /\ g2.tbl = g1.tbl
              /\ g2.next = g1.next
    /\ (ev.goc.called /\ ev.goc.existed) =>
          /\ ev.goc.ret = ev.pre
          /\ ev.goc.next = ev.goc.oid0

\* an incoming-call found the session of an earlier call, with a language,
\* a persona and a caller of its own, and passed another caller's phone
C1_Witness ==
    /\ ev.ep = "incoming-call" /\ ev.goc.called /\ ev.goc.existed
    /\ ev.goc.phone # ev.pre.caller_phone
    /\ ev.pre.language # DefaultLanguage
    /\ ev.pre.assistant_id # DefaultAssistantId
    /\ ev.pre.caller_info.is_registered

\* the tasks that hold a session object between being handed it and the
\* end of their handler
Holds(t) == tasks[t].pc \in {"set_info", "set_lang"}

\* C2: under every interleaving of the requests at the event loop, (a) a task
\* that found its key absent still finds it absent when it inserts, and a
\* task that found its key present still finds it when it deletes; (b) a
\* handler in flight holds the object the table stores under its key; (c) two
\* handlers in flight for one key hold the same object; (d) no handler ends
\* in a KeyError.
C2_AtomicTableOperations ==
    /\ \A t \in 1..NumTasks :
          /\ tasks[t].pc = "goc_insert" => tasks[t].sid \notin DOMAIN call_sessions
          /\ tasks[t].pc = "st_del" => tasks[t].sid \in DOMAIN call_sessions
          /\ tasks[t].pc # "error"
          /\ Holds(t) =>
                /\ tasks[t].sid \in DOMAIN call_sessions
                /\ call_sessions[tasks[t].sid].oid = tasks[t].held
    /\ \A t1 \in 1..NumTasks, t2 \in 1..NumTasks :
          (Holds(t1) /\ Holds(t2) /\ tasks[t1].sid = tasks[t2].sid)
              => tasks[t1].held = tasks[t2].held

\* simultaneous first contact: two incoming-call requests for one CallSid
\* arrived while the key was absent; the first made the session and
\* returned, and the second has been handed that same object (made for
\* another caller's number) while a terminal status callback waits
C2_Witness ==
    \E t1 \in 1..NumTasks, t2 \in 1..NumTasks :
        /\ tasks[t1].ep = "incoming-call" /\ tasks[t1].absent0
        /\ tasks[t1].pc = "set_info" /\ running = t1
        /\ tasks[t1].sid \in DOMAIN call_sessions
        /\ tasks[t1].held = call_sessions[tasks[t1].sid].oid
        /\ call_sessions[tasks[t1].sid].caller_phone # tasks[t1].phone
        /\ call_sessions[tasks[t1].sid].caller_phone \in Phones
        /\ tasks[t2].ep = "status-callback" /\ tasks[t2].sid = tasks[t1].sid
        /\ tasks[t2].status = "completed" /\ tasks[t2].pc = "st_status"

\* C3: a status callback with a terminal CallStatus leaves no entry for its
\* CallSid in the table, whatever IVR state the call was in.
C3_TerminalStatusEvicts ==
    ( /\ ev.ep = "status-callback"
      /\ ev.status \in {"completed", "failed", "busy", "no-answer", "canceled"} )
    => ev.sid \notin DOMAIN call_sessions

\* a no-answer status arrived while Twilio was speaking a reply, and the
\* call had a session
C3_Witness ==
    /\ ev.ep = "status-callback" /\ ev.status = "no-answer"
    /\ ev.ivr = "RESPOND"
    /\ ev.pre # NoSession
    /\ ev.sid \notin DOMAIN call_sessions

C5_LanguageDefault ==
    ( /\ ev.ep = "language-selection"
      /\ (ev.digits = None \/ ev.digits \notin DOMAIN LANGUAGE_CONFIG) )
    => /\ ev.sid \in DOMAIN call_sessions
       /\ call_sessions[ev.sid].language = LANGUAGE_CONFIG["1"].code
       /\ call_sessions[ev.sid].language = "en-US"
       /\ Len(ev.resp) = 3
       /\ ev.resp[1] = SayName("selected", "English")
       /\ ev.resp[2] = Gather("dtmf", U_assistant, "assistant_menu")
       /\ ev.resp[3] = Redirect(U_assistant, "Digits=2")

\* the language gather of a call timed out while the session, left by an
\* earlier call, was not English
C5_Witness ==
    /\ ev.ep = "language-selection" /\ ev.digits = None
    /\ ev.ivr = "LANGUAGE_SELECT"
    /\ ev.pre.language = "fr-FR"
    /\ call_sessions[ev.sid].language = "en-US"

\* C6: persona selection with Digits absent or not a key of ASSISTANT_CONFIG
\* sets the session's persona to the second enumerated persona (id 2,
\* Amira), and the response goes on to speech gathering: no error.
C6_PersonaDefault ==
    ( /\ ev.ep = "assistant-selection"
      /\ (ev.digits = None \/ ev.digits \notin DOMAIN ASSISTANT_CONFIG) )
    => /\ ev.sid \in DOMAIN call_sessions
       /\ call_sessions[ev.sid].assistant_id = ASSISTANT_CONFIG["2"].id
       /\ call_sessions[ev.sid].assistant_id = 2
       /\ Len(ev.resp) = 4
       /\ ev.resp[1] = SayName("connected", "Amira")
       /\ ev.resp[2] = Gather("speech", U_speech, None)

\* the caller pressed 3 at the persona menu while the session, left by an
\* earlier call, had persona 1
C6_Witness ==
    /\ ev.ep = "assistant-selection" /\ ev.digits = "3"
    /\ ev.ivr = "PERSONA_SELECT"
    /\ ev.pre.assistant_id = 1
    /\ call_sessions[ev.sid].assistant_id = 2

\* a document that only speaks and hangs up
EndsInHangup(doc) == \A i \in 1..Len(doc) : doc[i].verb \in {"Say", "Hangup"}

\* C7: two consecutive empty speech inputs (gather timeouts or process-speech
\* requests with an empty SpeechResult) end in a hangup: once a call has
\* had two in a row, what is left of it only speaks and hangs up.
C7_BoundedEmptyRetry ==
    \A c \in CallSids :
        streak[c] >= 2 => (~InProgress(c) \/ EndsInHangup(call[c].doc))

\* C8 (state part): a non-empty utterance whose generation returned is
\* answered by a document that speaks the reply and then gathers speech for
\* process-speech with the continuation prompt; no document of
\* process-speech or start-conversation leads back to a selection menu.
C8_AnswerDocument ==
    /\ (ev.ep = "process-speech" /\ ev.gen = "return") =>
          /\ ev.speech # <<>>
          /\ Len(ev.resp) = 4
          /\ ev.resp[1] = Say("reply", ev.reply)
          /\ ev.resp[2] = Gather("speech", U_speech, "anything_else")
          /\ EndsInHangup(SubSeq(ev.resp, 3, 4))
    /\ ev.ep \in {"process-speech", "start-conversation"} =>
          \A i \in 1..Len(ev.resp) : ev.resp[i].url \in {None, U_speech, U_start}

\* C8 (step part): from RESPOND a call goes to GATHER_SPEECH or TERMINATED
C8_RespondSuccessors ==
    \A c \in FlowCalls :
        IvrState(c) = "RESPOND" =>
            IvrState(c)' \in {"RESPOND", "GATHER_SPEECH", "TERMINATED"}

\* C8: every answered utterance is followed by speech gathering with a
\* continuation prompt, and after RESPOND the only successors are
\* GATHER_SPEECH and TERMINATED: the selection menus are never re-entered.
C8_AnswerThenGather == []C8_AnswerDocument /\ [][C8_RespondSuccessors]_vars

\* Twilio has spoken the reply to a ticket request and is at the gather
\* with the continuation prompt
C8_Witness ==
    /\ ev.ep = "process-speech" /\ ev.gen = "return" /\ ev.reply = R_ok
    /\ InProgress(ev.sid)
    /\ NextVerb(ev.sid) = Gather("speech", U_speech, "anything_else")
    /\ IvrState(ev.sid) = "GATHER_SPEECH"

(***************************************************************************)
(* Properties of the escalation policy.                                    *)
(***************************************************************************)
\* the message of the last request contains, lower-cased, a ticket phrase
AsksForTicket ==
    \E i \in 1..Len(TicketPhrases) : Contains(Lower(ev.speech), TicketPhrases[i])

\* the generator's output of the last request is empty or has the failure
\* phrase in some letter case
ReplyFailed ==
    ev.gen = "return"
    /\ (ev.reply = <<>> \/ Contains(Lower(ev.reply), FailurePhrase))

\* C9: on the authenticated voice pipeline, a message whose lower-cased text
\* contains a ticket phrase is not handed to the generator, and
\* create_trello_card is called once, whatever else the message contains and
\* whoever sends it.
C9_TicketPhraseBypassesGenerator ==
    (ev.ep = "voice-pipeline-auth" /\ AsksForTicket) =>
        /\ ev.gen = "none" /\ ev.prompt = NoContext /\ ev.reply = <<>>
        /\ ev.tickets = 1 /\ ev.ticket \in TicketOutcomes
        /\ ev.http = 200 =>
              ev.answer = IF ev.ticket = "url" THEN TicketCreatedReply(TicketUrl)
                          ELSE TicketPromisedReply

\* "please OPEN a Ticket" reached the authenticated pipeline and the card
\* was made
C9_Witness ==
    /\ ev.ep = "voice-pipeline-auth" /\ ev.speech = M_ticket
    /\ ev.gen = "none" /\ ev.ticket = "url" /\ ev.http = 200
    /\ ev.answer = TicketCreatedReply(TicketUrl)

C11_FallbackReplyNeverEmpty ==
    (ev.ep = "voice-pipeline-auth" /\ ev.http = 200) =>
        /\ (ev.gen = "return" /\ ev.reply = <<>>) =>
              (ev.tickets = 1 /\ ev.ticket \in {"url", "null"})
        /\ ev.answer # <<>>

\* the TwiML document speaks: a <Say> of a fixed message or of a non-empty
\* text, or a <Gather> with a spoken prompt
Speaks(doc) ==
    \E i \in 1..Len(doc) :
        \/ doc[i].verb = "Say" /\ (doc[i].what # "reply" \/ doc[i].text # <<>>)
        \/ doc[i].verb = "Gather" /\ doc[i].what # None

\* C12: whatever the generator, the ticket creation and the store do in a
\* turn, a voice-pipeline turn ends with status 200 and a non-empty aiResponse
\* and a telephony turn ends with a spoken message.
C12_EveryTurnGetsAReply ==
    /\ (ev.ep \in {"voice-pipeline", "voice-pipeline-auth"}) =>
          (ev.http = 200 /\ ev.answer # <<>>)
    /\ (ev.ep = "process-speech") => (ev.http = 200 /\ Speaks(ev.resp))

(***************************************************************************)
(* Properties of the context handed to the generator.                      *)
(***************************************************************************)
\* the last request was a voice turn that handed a context to the generator
Consulted ==
    ev.ep \in {"voice-pipeline", "voice-pipeline-auth"} /\ ev.gen \in {"return", "raise"}

\* the store answered the history query of the last request
StoreRead == db /\ ev.save # "down" /\ ev.http = 200

\* the turns the store held for the session of the last request when the
\* request arrived, in timestamp order
PriorTurns ==
    LET q == SessionRows(rows, ev.session_id)
        before == IF ev.save = "ok" THEN SubSeq(q, 1, Len(q) - 1) ELSE q
    IN  [i \in 1..Len(before) |-> Turn(before[i].user_message, before[i].ai_response)]

\* turns i..j of a history, each as "User: ...", newline, "AI: ...", newline
RECURSIVE Labelled(_, _, _)
Labelled(history, i, j) ==
    IF i > j THEN <<>>
    ELSE << "U","s","e","r",":"," " >> \o history[i].user
         \o << "\n","A","I",":"," " >> \o history[i].ai \o << "\n" >>
         \o Labelled(history, i + 1, j)

\* C13: in both voice pipelines, when the client sends a non-empty history
\* the context is built from it alone: every turn of the context is a turn
\* the client sent and no turn of the store is in it, whatever the store
\* holds; a persisted turn is in the context only when the client sent none.
C13_ClientHistoryTakesPrecedence ==
    Consulted =>
        /\ ev.client # <<>> =>
              /\ ev.prompt.framed
              /\ \A i \in 1..Len(ev.prompt.turns) :
                    \E j \in 1..Len(ev.client) : ev.prompt.turns[i] = ev.client[j]
              /\ \A k \in 1..Len(PriorTurns) :
                    /\ \A i \in 1..Len(ev.prompt.turns) :
                          ev.prompt.turns[i] # PriorTurns[k]
                    /\ ~Contains(ev.prompt.text, Labelled(PriorTurns, k, k))
        /\ (\E k \in 1..Len(PriorTurns) :
                Contains(ev.prompt.text, Labelled(PriorTurns, k, k)))
              => ev.client = <<>>

\* a client sent a history for a session of which the store, which answered,
\* holds more than a window of turns, and the generator got the client's
C13_Witness ==
    /\ Consulted /\ StoreRead /\ ev.client # <<>>
    /\ Len(PriorTurns) > ContextWindow
    /\ ev.prompt.turns = LastN(ev.client, ContextWindow)

\* C14: when the client sends no history and the session has more than 10
\* stored turns, the turns of the context are the 10 most recent ones of
\* the session, oldest of them first; the oldest turns are the ones left out.
C14_MostRecentStoredTurns ==
    (Consulted /\ StoreRead /\ ev.client = <<>> /\ Len(PriorTurns) > 10) =>
        LET n == Len(PriorTurns)
        IN  /\ ev.prompt.turns = [i \in 1..10 |-> PriorTurns[n - 10 + i]]
            /\ \A k \in 1..(n - 10) :
                  ~Contains(ev.prompt.text, Labelled(PriorTurns, k, k))

\* C15: for a client history of n turns the context is "Previous
\* conversation:", the last min(n, 10) turns in their order, each as a
\* "User: ..." / "AI: ..." pair, and the current message; the first n - 10
\* turns of a longer history (the first two of 12) are not in it.
C15_ClientHistoryWindow ==
    (Consulted /\ ev.client # <<>>) =>
        LET n == Len(ev.client)
            k == IF n < 10 THEN n ELSE 10
        IN  /\ ev.prompt.text =
                  << "P","r","e","v","i","o","u","s"," ","c","o","n","v","e","r",
                     "s","a","t","i","o","n",":","\n" >>
                  \o Labelled(ev.client, n - k + 1, n)
                  \o << "\n","C","u","r","r","e","n","t"," ","u","s","e","r"," ",
                        "m","e","s","s","a","g","e",":"," " >>
                  \o ev.speech \o << "\n" >>
            /\ \A i \in 1..(n - k) :
                  ~Contains(ev.prompt.text, Labelled(ev.client, i, i))

\* a client sent 12 turns and the generator got the last ten
C15_Witness ==
    /\ Consulted /\ Len(ev.client) = 12
    /\ Len(ev.prompt.turns) = 10
    /\ ev.prompt.turns[1] = ev.client[3] /\ ev.prompt.turns[10] = ev.client[12]
    /\ ~Contains(ev.prompt.text, Labelled(ev.client, 2, 2))

\* C16: when the client sends no history and no turn of the session is
\* stored (or there is no store), the context is the current message and
\* nothing else: no preamble, no label.
C16_BareMessageWithoutHistory ==
    (Consulted /\ ev.client = <<>> /\ (~db \/ PriorTurns = <<>>)) =>
        /\ ev.prompt.text = ev.speech
        /\ ~ev.prompt.framed /\ ev.prompt.turns = <<>>

\* a first message of a new session reached the generator as it is, on a
\* store that holds turns of other sessions
C16_Witness ==
    /\ Consulted /\ StoreRead /\ ev.client = <<>> /\ PriorTurns = <<>>
    /\ rows # <<>>
    /\ ev.speech = M_bill /\ ev.prompt.text = M_bill

(***************************************************************************)
(* Properties of the background tasks.                                     *)
(***************************************************************************)
\* this step is an authenticated voice turn that ends with a response
AuthTurnStep ==
    turns' = turns + 1 /\ ev'.ep = "voice-pipeline-auth" /\ ev'.http = 200

\* C17: scheduling the audio tasks does not delay the reply.  At the step in
\* which the authenticated pipeline returns its response, every task of the
\* turn has been queued and none has started, no audio path of the turn is
\* written, and the response says "processing" for both audios; a task runs
\* only in a later step.
C17_ReplyBeforeSidecar ==
    [][AuthTurnStep =>
          /\ Len(bg') = Len(bg) + Len(ev'.jobs)
          /\ \A i \in 1..Len(ev'.jobs) :
                /\ bg'[Len(bg) + i].job = ev'.jobs[i]
                /\ bg'[Len(bg) + i].state = "pending"
          /\ \A i \in 1..Len(bg) : bg'[i] = bg[i]
          /\ ev'.audioSaved = [user |-> "processing", ai |-> "processing"]
          /\ \A k \in 1..Len(rows') :
                (\E i \in 1..Len(ev'.jobs) :
                    ev'.jobs[i].conversation_id = rows'[k].id) =>
                   (rows'[k].user_audio_path = None /\ rows'[k].ai_audio_path = None)
      ]_vars

\* a turn with caller audio was answered and saved, and both its tasks are
\* queued and not started
C17_Witness ==
    /\ ev.ep = "voice-pipeline-auth" /\ ev.http = 200 /\ ev.answer = R_ok
    /\ Len(ev.jobs) = 2 /\ Len(bg) = 2
    /\ bg[1].job.kind = "save_audio" /\ bg[1].state = "pending"
    /\ bg[2].job.kind = "generate_ai_audio" /\ bg[2].state = "pending"

\* C18: a task is scheduled for a turn only after the turn's texts were
\* committed and its row id obtained: every task names a row of its session
\* that is in the store, a turn whose save failed or that ran with no store
\* has no task, and no task changes the user_message or the ai_response of
\* a row.
C18_SidecarOnlyForRecordedTurns ==
    /\ [](/\ \A i \in 1..Len(bg) :
               \E k \in 1..Len(rows) :
                  /\ rows[k].id = bg[i].job.conversation_id
                  /\ rows[k].session_id = bg[i].job.session_id
           /\ (ev.ep = "voice-pipeline-auth" /\ ev.save # "ok") => ev.jobs = <<>>)
    /\ [][bg' # bg /\ turns' = turns =>
             /\ Len(rows') = Len(rows)
             /\ \A k \in 1..Len(rows) :
                   /\ rows'[k].user_message = rows[k].user_message
                   /\ rows'[k].ai_response = rows[k].ai_response
                   /\ rows'[k].id = rows[k].id]_vars

\* C19: the tasks are independent: a task that is queued can start whatever
\* the state of the other task of its turn and of the tasks of other turns,
\* so that none waits for another and a task that fails or never ends keeps
\* no other from running.
C19_SidecarJobsIndependent ==
    \A i \in 1..Len(bg) : bg[i].state = "pending" => CanStart(i)

(***************************************************************************)
(* Properties of a turn with no durable store.                             *)
(***************************************************************************)
\* the last request was a turn: a voice request, or speech that was heard
WasTurn ==
    \/ ev.ep \in {"voice-pipeline", "voice-pipeline-auth"}
    \/ ev.ep = "process-speech" /\ ev.speech # <<>>

\* the reply the client got, or the caller heard first
Returned == IF ev.ep = "process-speech" THEN ev.resp[1].text ELSE ev.answer

\* nothing was loaded, saved or scheduled, and the context is the client's
\* history with the message, or the message alone
StoreSkipped ==
    /\ rows = <<>> /\ meta = <<>> /\ bg = <<>>
    /\ ev.save = "none" /\ ev.jobs = <<>>
    /\ ev.gen # "none" =>
          /\ ev.prompt.turns = LastN(ev.client, 10)
          /\ ev.client = <<>> => ev.prompt.text = ev.speech
          /\ ev.prompt.framed = (ev.client # <<>>)

\* C20 as claimed: with no store every turn on every entry point completes
\* and returns the generator's reply, with loading, saving and scheduling
\* skipped and no error raised.
C20_NoStoreReturnsGeneratorReply ==
    (~db /\ WasTurn) =>
        /\ StoreSkipped
        /\ ev.http = 200 /\ ev.gen = "return" /\ Returned = ev.reply

\* C20 amended: with no store the absence of the store fails no turn and
\* changes no reply: loading, saving and scheduling are skipped, the guest
\* pipeline and telephony hand every message to the generator and return its
\* reply, the authenticated pipeline returns it unless a ticket phrase (the
\* generator is not called) or a fallback ticket replaces it, and a turn
\* fails only when the generator or the ticket creation raises: with status
\* 500 on the voice pipelines, with a spoken apology and a hangup on telephony.
C20_NoStoreChangesNoReply ==
    (~db /\ WasTurn) =>
        /\ StoreSkipped
        /\ ev.ep # "voice-pipeline-auth" => ev.gen \in {"return", "raise"}
        /\ (ev.http = 500) <=>
              (ev.ep # "process-speech" /\ (ev.gen = "raise" \/ ev.ticket = "raise"))
        /\ ev.http \in {200, 500}
        /\ (ev.ep = "process-speech" /\ ev.gen = "raise") => ev.resp = FailedResponse
        /\ (ev.http = 200 /\ ev.gen = "return") =>
              Returned = IF ev.ticket = "url" THEN TicketFallbackReply(TicketUrl)
                         ELSE ev.reply
        /\ (ev.http = 200 /\ ev.gen = "none") =>
              /\ ev.ep = "voice-pipeline-auth" /\ AsksForTicket
              /\ Returned = IF ev.ticket = "url" THEN TicketCreatedReply(TicketUrl)
                             ELSE TicketPromisedReply

\* with no store a guest sent a history and a message and got the
\* generator's reply with the turn appended to that history
C20_Witness ==
    /\ ~db /\ ev.ep = "voice-pipeline" /\ ev.http = 200
    /\ ev.client # <<>> /\ ev.prompt.framed
    /\ ev.gen = "return" /\ ev.reply = R_ok /\ ev.answer = R_ok
    /\ ev.history = Append(ev.client, Turn(ev.speech, R_ok))
    /\ rows = <<>> /\ meta = <<>> /\ ev.jobs = <<>>


(***************************************************************************)
(* Properties of concurrent voice turns.                                   *)
(***************************************************************************)
\* voice tasks t and u, one after the other on one session: t recorded its
\* turn, and u, which ended later, read the stored history and used it
Successive(t, u) ==
    /\ tasks[t].pc = "done" /\ tasks[u].pc = "done"
    /\ tasks[t].session_id = tasks[u].session_id
    /\ tasks[t].row > 0
    /\ tasks[t].seq < tasks[u].seq
    /\ tasks[u].read /\ tasks[u].request.history = <<>>

C22_HistoryEndsWithCurrentExchange ==
    (ev.ep \in {"voice-pipeline", "voice-pipeline-auth"} /\ ev.http = 200) =>
        /\ ev.history # <<>>
        /\ ev.history[Len(ev.history)].user = ev.speech
        /\ ev.history[Len(ev.history)].ai = ev.answer


(***************************************************************************)
(* Properties of the extraction.                                           *)
(***************************************************************************)
\* C23: extract_issue_type returns the type with the most keyword hits
\* among billing, internet, mobile, technical, account and service, in this
\* order; of several types with the most hits it returns the one that comes
\* first in the order; and it returns None when no keyword occurs.
C23_HighestScoreFirstDefined ==
    LET text_lower == Lower(ev.speech)
        hits(i) == IssueScore(issue_patterns[i].keywords, text_lower)
        types == <<"billing", "internet", "mobile", "technical", "account",
                   "service">>
    IN  ev.ep = "extract_issue_type" =>
            /\ [i \in 1..Len(issue_patterns) |-> issue_patterns[i].type] = types
            /\ (ev.issue = None) <=> (\A i \in 1..6 : hits(i) = 0)
            /\ ev.issue # None =>
                  \E i \in 1..6 :
                      /\ ev.issue = types[i]
                      /\ hits(i) > 0
                      /\ \A j \in 1..6 : hits(j) <= hits(i)
                      /\ \A j \in 1..(i - 1) : hits(j) < hits(i)

\* a text with as many billing keywords as internet keywords, one of each,
\* came out as billing; the internet keyword came first in the text
C23_Witness ==
    /\ ev.ep = "extract_issue_type"
    /\ ev.speech = <<"s","l","o","w"," ","b","i","l","l">>
    /\ IssueScore(issue_patterns[1].keywords, Lower(ev.speech)) = 1
    /\ IssueScore(issue_patterns[2].keywords, Lower(ev.speech)) = 1
    /\ ev.issue = "billing"


(***************************************************************************)
(* Properties of the sessions of the IVR.                                  *)
(***************************************************************************)
\* C24: the caller's identity is resolved once per session: once
\* incoming-call has set the caller_info of a session (the session it
\* created for the caller's number), no later request for that CallSid
\* changes it while the session stays in the table.
C24_CallerInfoImmutable ==
    [][\A c \in CallSids :
          (/\ c \in DOMAIN call_sessions
           /\ c \in DOMAIN call_sessions'
           /\ call_sessions'[c].oid = call_sessions[c].oid
           /\ call_sessions[c].caller_phone \in Phones)
          => call_sessions'[c].caller_info = call_sessions[c].caller_info]_vars

\* C25: whatever keys the caller presses, and when a key is missing, the
\* language of a live session is one of the language codes and its persona
\* is 1 or 2: the sessions that passed the language and the persona menu,
\* and those that have not passed them yet.
C25_SelectionsInClosedSets ==
    \A c \in DOMAIN call_sessions :
        /\ call_sessions[c].language \in {"en-US", "ar-SA", "fr-FR"}
        /\ call_sessions[c].assistant_id \in {1, 2}
        /\ (ev.sid = c /\ ev.ep = "language-selection") =>
              \E d \in DOMAIN LANGUAGE_CONFIG :
                  call_sessions[c].language = LANGUAGE_CONFIG[d].code
        /\ (ev.sid = c /\ ev.ep = "assistant-selection") =>
              \E d \in DOMAIN ASSISTANT_CONFIG :
                  call_sessions[c].assistant_id = ASSISTANT_CONFIG[d].id

\* a caller who had chosen French pressed a key that is no persona
C25_Witness ==
    /\ ev.ep = "assistant-selection" /\ ev.digits = "7"
    /\ ev.pre.language = "fr-FR"
    /\ ev.sid \in DOMAIN call_sessions
    /\ call_sessions[ev.sid].language = "fr-FR"
    /\ call_sessions[ev.sid].assistant_id = 2

\* C26: eviction is final.  Once a terminal status callback has removed
\* the session of a call that ended, the table gets a session for that
\* CallSid again only by a new incoming-call: a late language-selection,
\* assistant-selection, start-conversation or process-speech request for
\* the ended call creates none.
C26_EvictionIsFinal ==
    [][\A c \in CallSids :
          (/\ call[c].status = "ended"
           /\ c \notin DOMAIN call_sessions
           /\ c \in DOMAIN call_sessions')
          => (ev'.ep = "incoming-call" /\ ev'.sid = c)]_vars

\* C27: the frame of the IVR handlers on a session that is in the table.
\* language-selection changes its language and nothing else,
\* assistant-selection its persona and nothing else, start-conversation and
\* process-speech change nothing of it, and a request for one CallSid
\* leaves the session of every other CallSid as it was.
C27_HandlerFrame ==
    [][\A c \in DOMAIN call_sessions :
          LET old == call_sessions[c]
              new == call_sessions'[c]
          IN  IF ev'.sid # c
              THEN c \in DOMAIN call_sessions' /\ new = old
              ELSE /\ ev'.ep = "language-selection" =>
                        /\ c \in DOMAIN call_sessions'
                        /\ new = [old EXCEPT !.language = new.language]
                   /\ ev'.ep = "assistant-selection" =>
                        /\ c \in DOMAIN call_sessions'
                        /\ new = [old EXCEPT !.assistant_id = new.assistant_id]
                   /\ ev'.ep \in {"start-conversation", "process-speech"} =>
                        /\ c \in DOMAIN call_sessions'
                        /\ new = old]_vars

\* with the sessions of two CallSids in the table, one in French with Slah,
\* a request for the other CallSid made its session French and left its
\* persona, Slah, as it was
C27_Witness ==
    /\ DOMAIN call_sessions = CallSids
    /\ ev.ep = "language-selection" /\ ev.sid = "CA1" /\ ev.digits = "3"
    /\ ev.pre.oid = call_sessions["CA1"].oid
    /\ ev.pre.language = "en-US" /\ ev.pre.assistant_id = 1
    /\ call_sessions["CA1"].language = "fr-FR"
    /\ call_sessions["CA1"].assistant_id = 1
    /\ call_sessions["CA2"].language = "fr-FR"
    /\ call_sessions["CA2"].assistant_id = 1
    /\ call_sessions["CA2"].caller_info.is_registered

(***************************************************************************)
(* Properties of a telephony turn.                                         *)
(***************************************************************************)
\* C28: process-speech records a turn only after the generator returned.
\* When the generator raises, the store is left as it was, the caller hears
\* the apology and the call is hung up with no gather; when the generator
\* returns and a write of the store fails, no row is added, the reply is
\* said and the next gather follows; and an empty SpeechResult neither
\* calls the generator nor changes the store.
C28_PersistAfterGeneration ==
    [][(ev'.ep = "process-speech" /\ turns' = turns + 1) =>
          /\ rows' # rows =>
                /\ ev'.gen = "return" /\ ev'.save = "ok"
                /\ rows' = Append(rows, rows'[Len(rows')])
                /\ rows'[Len(rows')].user_message = ev'.speech
                /\ rows'[Len(rows')].ai_response = ev'.reply
          /\ ev'.gen = "raise" =>
                /\ rows' = rows /\ meta' = meta
                /\ ev'.resp = <<Say("apology", <<>>), Hangup>>
                /\ \A i \in 1..Len(ev'.resp) : ev'.resp[i].verb # "Gather"
          /\ (ev'.gen = "return" /\ ev'.save \in {"fail_session", "fail_conversation"}) =>
                /\ rows' = rows
                /\ ev'.resp[1] = Say("reply", ev'.reply)
                /\ ev'.resp[2].verb = "Gather" /\ ev'.resp[2].url = U_speech
          /\ ev'.speech = <<>> =>
                /\ ev'.gen = "none"
                /\ rows' = rows /\ meta' = meta]_vars

\* with a store, the generator answered a caller and the insert of the turn
\* failed: the session's metadata is saved, no row is, and the caller heard
\* the reply before the next gather
C28_Witness ==
    /\ db /\ ev.ep = "process-speech" /\ ev.gen = "return"
    /\ ev.save = "fail_conversation" /\ ev.reply = R_ok
    /\ ev.resp = AnsweredResponse(R_ok)
    /\ rows = <<>> /\ ev.sid \in DOMAIN meta

(***************************************************************************)
(* Properties of an authenticated voice turn.                              *)
(***************************************************************************)
\* C29: an authenticated voice turn calls create_trello_card at most once:
\* for a message with a ticket phrase, without calling the generator, or
\* after the one call of the generator, when its output is empty or has the
\* failure phrase; never for both reasons, and never when the generator's
\* output is non-empty and free of the failure phrase.
C29_AtMostOneTicketAttempt ==
    ev.ep = "voice-pipeline-auth" =>
        /\ ev.tickets \in {0, 1}
        /\ (ev.tickets = 1) <=> (ev.ticket \in TicketOutcomes)
        /\ AsksForTicket => (ev.gen = "none" /\ ev.tickets = 1)
        /\ ev.tickets = 1 =>
              \/ AsksForTicket /\ ev.gen = "none"
              \/ ~AsksForTicket /\ ev.gen = "return" /\ ReplyFailed
        /\ (ev.gen = "return" /\ ev.reply # <<>>
               /\ ~Contains(Lower(ev.reply), FailurePhrase)) => ev.tickets = 0
        /\ ev.gen = "raise" => ev.tickets = 0

\* the generator was called for a message without a ticket phrase and
\* returned the failure phrase; the one ticket attempt made no card and the
\* generator's text was returned
C29_Witness ==
    /\ ev.ep = "voice-pipeline-auth" /\ ev.http = 200
    /\ ~AsksForTicket /\ ev.gen = "return" /\ ev.reply = R_failure
    /\ ev.tickets = 1 /\ ev.ticket = "null"
    /\ ev.answer = R_failure

\* C30: the persona recorded for a voice turn is the persona the turn ran
\* as, whatever assistantId the request has: the assistant_id saved in the
\* session's metadata is 1, Slah, exactly when the reply was made and the
\* voice chosen as Slah, and 2, Amira, exactly when as Amira.
C30_RecordedPersonaIsUsedPersona ==
    (/\ ev.ep \in {"voice-pipeline", "voice-pipeline-auth"}
     /\ ev.http = 200 /\ db
     /\ ev.save \in {"ok", "fail_conversation", "fail_commit"}) =>
        /\ ev.session_id \in DOMAIN meta
        /\ (meta[ev.session_id].assistant_id = 1) <=> (ev.persona = "Slah")
        /\ (meta[ev.session_id].assistant_id = 2) <=> (ev.persona = "Amira")

====
